---- MODULE Spec2Model ----
(***************************************************************************)
(* Bronze -> silver -> gold batch pipeline: the row-level quality gate     *)
(* (validate_silver.py), the ingestor (ingest_bronze.py) and the           *)
(* incremental-arrival simulator (simulate_incremental_ingest.py).         *)
(*                                                                         *)
(* A CSV cell is a record [k, v]: k is the kind of text in the cell and v  *)
(* an integer payload.  "num" is a numeric literal, "ts" a date-time       *)
(* string in the format the pipeline writes (v = minutes since the first   *)
(* instant), "str" any other text (v tells two texts apart), "null" an     *)
(* empty cell (NaN after read_csv).                                        *)
(***************************************************************************)
EXTENDS Integers, Sequences, FiniteSets, TLC

VARIABLES
    bronze_all,      \* data/bronze/bronze_all.csv
    silver_all,      \* data/silver/silver_all.csv
    rejected_rows,   \* data/silver/rejected_rows.csv
    pandera,         \* whether `import pandera` succeeds in this environment
    outcome,         \* how the last validate_silver.py process ended
    vruns,           \* validate_silver.py runs so far
    source,          \* the --source CSV as it is when main starts
    source_is_bronze,\* --source data/bronze/bronze_all.csv
    n_batches,       \* --n
    reset,           \* --no-reset clears it
    rng,             \* what the seeded generator of DataFrame.sample draws
    test_size,       \* params.yaml test_size, in tenths
    parts,           \* the list split_into_batches returned
    staging,         \* data/_staging_batches/batch_NN.csv, by batch number
    incoming,        \* data/incoming/batch_NN.csv
    raw,             \* data/bronze/raw_batch_NN.csv
    sidecar,         \* data/bronze/raw_batch_NN.csv.dvc: the md5 it records
    manifest,        \* data/bronze/manifest.csv
    transformed,     \* data/silver/transformed_silver.csv
    gold,            \* data/gold/gold.csv
    train,           \* data/gold/train.csv
    test,            \* data/gold/test.csv
    pc,              \* where the simulator's main is
    staged,          \* the sorted list of staged batch files
    k,               \* position of the current batch in staged
    log,             \* the steps done so far, as <<batch, step>>
    kept,            \* the manifest entries there were when the batch loop began
    failure,         \* <<batch, step>> of the script that exited non-zero, if any
    ingestors        \* the local state of each concurrent ingest_bronze.py process

valVars == <<bronze_all, silver_all, rejected_rows, pandera, outcome, vruns>>
simVars == <<source, source_is_bronze, n_batches, reset, rng, test_size, parts,
             staging,
             incoming, raw, sidecar, manifest, transformed, gold, train, test,
             pc, staged, k, log, kept, failure, ingestors>>
vars == <<valVars, simVars>>
simVars_but_pc == <<source, source_is_bronze, n_batches, reset, rng, test_size, parts,
                    staging, incoming, raw, sidecar, manifest, transformed, gold,
                    train, test, staged, k, log, kept, failure>>

----------------------------------------------------------------------------
(* Bounds of the model *)

MaxRows == 3
MaxRuns == 2
MaxSrcRows == 3
MaxN == 3
MaxTotal == 12
MaxSplitN == 6
MaxGold == 6
MaxBronzeRows == 4

----------------------------------------------------------------------------
(* Cells, rows, files *)

Null == [k |-> "null", v |-> 0]
Num(n) == [k |-> "num", v |-> n]
Str(c) == [k |-> "str", v |-> c]
Ts(t) == [k |-> "ts", v |-> t]

Columns == {"id", "feature_num", "feature_cat", "target", "timestamp"}

MkRow(i, f, c, t, s) ==
    [id |-> i, feature_num |-> f, feature_cat |-> c, target |-> t, timestamp |-> s]

Absent == [exists |-> FALSE, cols |-> {}, rows |-> <<>>]
File(cols, rows) == [exists |-> TRUE, cols |-> cols, rows |-> rows]

Min(S) == CHOOSE x \in S : \A y \in S : x <= y

----------------------------------------------------------------------------
(* validate_silver.py: validate_df *)

RequiredColumns == {"id", "feature_num", "feature_cat", "target", "timestamp"}

MinVal == -100
MaxVal == 200

NaT == -1

\* (mutant) empty cells let through
notnull_always(c) == TRUE

notnull(c) == c.k # "null"

\* pd.to_numeric(errors="coerce")
to_numeric(c) == IF c.k = "num" THEN c ELSE Null

\* pd.to_datetime(errors="coerce")
to_datetime(c) == IF c.k = "ts" THEN c.v ELSE NaT

\* (mutant) the target not checked against [0, 1]
isin01_any_number(c) == c.k = "num"

\* Series.isin([0, 1])
isin01(c) == c.k = "num" /\ c.v \in {0, 1}

\* (mutant) keep="first": only the later copies are flagged
duplicated_keep_first(rows, col, i) ==
    \E j \in DOMAIN rows : j < i /\ rows[j][col] = rows[i][col]

\* Series.duplicated(keep=False) at index i: NaN cells count as equal
duplicated(rows, col, i) ==
    \E j \in DOMAIN rows : j # i /\ rows[j][col] = rows[i][col]

\* (mutant) a missing column is read as a column of empty cells
Raises_never(df, required_cols) == FALSE

\* the raise of the required-columns loop, and the KeyError of an unguarded
\* df[...] on a column the later rules read
Raises(df, required_cols) ==
    \/ \E c \in required_cols : c \notin df.cols
    \/ ~({"feature_num", "target", "timestamp", "id"} \subseteq df.cols)

ParsedTs(rows) == [i \in DOMAIN rows |-> to_datetime(rows[i].timestamp)]

RECURSIVE SortedOrders(_, _)
\* every order of the index set S by ascending ts: the sort is not stable, so
\* equal keys may come out in any order
SortedOrders(ts, S) ==
    IF S = {} THEN {<<>>}
    ELSE LET mins == {i \in S : \A j \in S : ts[i] <= ts[j]}
         IN UNION {{<<m>> \o o : o \in SortedOrders(ts, S \ {m})} : m \in mins}

RECURSIVE AscendingSeq(_)
AscendingSeq(S) ==
    IF S = {} THEN <<>>
    ELSE LET m == Min(S) IN <<m>> \o AscendingSeq(S \ {m})

\* ts.sort_values(): the orders of the index it may return, NaT last
sort_values(ts) ==
    LET valid == {i \in DOMAIN ts : ts[i] # NaT}
        nat == AscendingSeq(DOMAIN ts \ valid)
    IN {o \o nat : o \in SortedOrders(ts, valid)}

\* ts_sorted.diff().dropna(): <<index label, difference>> pairs
Diffs(ts, ord) ==
    {<<ord[p], ts[ord[p]] - ts[ord[p - 1]]>> :
        p \in {q \in 2..Len(ord) : ts[ord[q]] # NaT /\ ts[ord[q - 1]] # NaT}}

\* (mutant) the threshold compared with >= instead of >
GapIdx_geq(ts, ord) ==
    LET diffs == Diffs(ts, ord)
        positive == {e \in diffs : e[2] > 0}
        expected == IF positive # {} THEN Min({e[2] : e \in positive}) ELSE 0
    IN IF diffs = {} \/ positive = {} THEN {}
       ELSE {e[1] : e \in {x \in diffs : x[2] >= 3 * expected}}

\* the index labels the continuity check marks False
GapIdx(ts, ord) ==
    LET diffs == Diffs(ts, ord)
        positive == {e \in diffs : e[2] > 0}
        \* diffs.median() is taken only when no difference is positive, and
        \* every difference of a sorted series is then 0
        expected == IF positive # {} THEN Min({e[2] : e \in positive}) ELSE 0
    IN IF diffs = {} THEN {}
       ELSE {e[1] : e \in {x \in diffs : x[2] > 3 * expected}}

\* (mutant) only the upper bound is checked
out_of_range_upper_only(r) ==
    LET f == to_numeric(r.feature_num)
    IN f.k = "num" /\ f.v > MaxVal

out_of_range(r) ==
    LET f == to_numeric(r.feature_num)
    IN f.k = "num" /\ (f.v < MinVal \/ f.v > MaxVal)

\* pandera schema, coerce=False, lazy=True: a column whose dtype is not the
\* schema's fails as a whole (failure case with no row index), and
\* results.loc[...] on that missing label raises inside the outer
\* try/except, which drops the whole pass
PanderaDtypeFailure(df) ==
    \/ \E i \in DOMAIN df.rows : df.rows[i].id.k # "num"
    \/ \E i \in DOMAIN df.rows : df.rows[i].target.k # "num"
    \/ \E i \in DOMAIN df.rows : df.rows[i].feature_num.k \notin {"num", "null"}

PanderaRowFails(r) ==
    \/ r.id.v <= 0
    \/ r.feature_num.k = "null"
    \/ ~(r.feature_cat.k = "str" /\ r.feature_cat.v \in {1, 2, 3})
    \/ ~isin01(r.target)
    \/ to_datetime(r.timestamp) = NaT

PanderaFailed(df, installed) ==
    IF ~installed \/ PanderaDtypeFailure(df) THEN {}
    ELSE {i \in DOMAIN df.rows : PanderaRowFails(df.rows[i])}

CoreRules(df, required_cols, i) ==
    LET r == df.rows[i]
    IN /\ \A c \in required_cols : notnull(r[c])
       /\ notnull(to_numeric(r.feature_num))
       /\ isin01(r.target)
       /\ to_datetime(r.timestamp) # NaT
       /\ ~duplicated(df.rows, "id", i)
       /\ ~duplicated(df.rows, "timestamp", i)
       /\ ~out_of_range(r)

\* (mutant) the result of the pandera pass taken in place of the core result
validate_df_pass_overrides(df, required_cols, ord, installed) ==
    [i \in DOMAIN df.rows |->
        IF installed /\ ~PanderaDtypeFailure(df)
        THEN i \notin PanderaFailed(df, installed)
        ELSE /\ CoreRules(df, required_cols, i)
             /\ i \notin GapIdx(ParsedTs(df.rows), ord)]

\* the mask validate_df returns when it does not raise; ord is the order
\* sort_values produced
validate_df(df, required_cols, ord, installed) ==
    [i \in DOMAIN df.rows |->
        /\ CoreRules(df, required_cols, i)
        /\ i \notin GapIdx(ParsedTs(df.rows), ord)
        /\ i \notin PanderaFailed(df, installed)]

----------------------------------------------------------------------------
(* validate_silver.py: main *)

\* (mutant) both outputs are cut with the same mask
Select_same_mask(rows, mask, keep) ==
    LET F[n \in 0..Len(rows)] ==
            IF n = 0 THEN <<>>
            ELSE IF mask[n] THEN Append(F[n - 1], rows[n]) ELSE F[n - 1]
    IN F[Len(rows)]

RECURSIVE Select(_, _, _)
\* df[mask] (keep = TRUE) or df[~mask] (keep = FALSE), in row order
Select(rows, mask, keep) ==
    IF rows = <<>> THEN <<>>
    ELSE LET n == Len(rows)
             front == Select(SubSeq(rows, 1, n - 1), mask, keep)
         IN IF mask[n] = keep THEN Append(front, rows[n]) ELSE front

\* (mutant) mode="a": the rows are added to the file that is there
to_csv_append(old, df) == File(df.cols, old.rows \o df.rows)

\* DataFrame.to_csv(path, index=False): the file is replaced
to_csv(old, df) == df

ValidateStage(res) ==
    IF ~bronze_all.exists
    THEN /\ res = "skipped"
         /\ UNCHANGED <<silver_all, rejected_rows>>
    ELSE IF Raises(bronze_all, RequiredColumns)
    THEN /\ res = "error"
         /\ UNCHANGED <<silver_all, rejected_rows>>
    ELSE \E ord \in sort_values(ParsedTs(bronze_all.rows)) :
            LET mask == validate_df(bronze_all, RequiredColumns, ord, pandera)
            IN /\ res = "ok"
               /\ silver_all' = to_csv(silver_all,
                      File(bronze_all.cols, Select(bronze_all.rows, mask, TRUE)))
               /\ rejected_rows' = to_csv(rejected_rows,
                      File(bronze_all.cols, Select(bronze_all.rows, mask, FALSE)))

----------------------------------------------------------------------------
(* Directories of batch files, keyed by batch number *)

EmptyDir == [i \in {} |-> Absent]
Put(dir, name, file) == [i \in DOMAIN dir \cup {name} |-> IF i = name THEN file ELSE dir[i]]

RECURSIVE Digits(_)
Digits(i) == IF i < 10 THEN <<i>> ELSE Append(Digits(i \div 10), i % 10)

\* the digits of f"batch_{i:02d}.csv"
BatchName(i) == IF i < 10 THEN <<0, i>> ELSE Digits(i)

RECURSIVE LexLess(_, _)
\* string order of two names
LexLess(a, b) ==
    IF a = <<>> THEN b # <<>>
    ELSE IF b = <<>> THEN FALSE
    ELSE IF a[1] # b[1] THEN a[1] < b[1]
    ELSE LexLess(Tail(a), Tail(b))

RECURSIVE SortedNames_by_number(_)
\* (mutant) the files taken by batch number
SortedNames_by_number(S) ==
    IF S = {} THEN <<>>
    ELSE LET m == CHOOSE x \in S : \A y \in S : x <= y
         IN <<m>> \o SortedNames_by_number(S \ {m})

\* sorted(dir.glob("*.csv")): the name that has p - 1 of the names before it
\* in string order comes p-th
SortedNames(S) ==
    [p \in 1..Cardinality(S) |->
        CHOOSE x \in S :
            Cardinality({y \in S : LexLess(BatchName(y), BatchName(x))}) = p - 1]

----------------------------------------------------------------------------
(* simulate_incremental_ingest.py: split_into_batches *)

\* where a text sorts among the timestamp texts: date-times by instant, any
\* other text after them
TextBase == 1000
TextKey(c) == IF c.k = "ts" THEN c.v ELSE TextBase + c.v

\* df.sort_values(col): the orders of the index it may return, NaN last
SortOrders(df) ==
    LET col == IF "timestamp" \in df.cols THEN "timestamp"
               ELSE IF "id" \in df.cols THEN "id" ELSE "none"
        idx == DOMAIN df.rows
    IN IF col = "none" THEN {AscendingSeq(idx)}
       ELSE LET valid == {i \in idx : df.rows[i][col].k # "null"}
                key == [i \in valid |->
                           IF col = "timestamp" THEN TextKey(df.rows[i][col])
                           ELSE df.rows[i][col].v]
            IN {o \o AscendingSeq(idx \ valid) : o \in SortedOrders(key, valid)}

\* (mutant) the remainder handed to the last batch
SliceLoop_rem_last(rows, n, base, rem, i, start) ==
    [j \in 1..n |->
        SubSeq(rows, (j - 1) * base + 1, j * base + (IF j = n THEN rem ELSE 0))]

RECURSIVE SliceLoop(_, _, _, _, _, _)
\* the for loop over range(n): i is the loop variable, start the running offset
SliceLoop(rows, n, base, rem, i, start) ==
    IF i >= n THEN <<>>
    ELSE LET size == base + (IF i < rem THEN 1 ELSE 0)
             end == start + size
         IN <<SubSeq(rows, start + 1, end)>> \o SliceLoop(rows, n, base, rem, i + 1, end)

split_into_batches(df, n, ord) ==
    LET rows == [p \in DOMAIN ord |-> df.rows[ord[p]]]
        total == Len(rows)
    IN IF total = 0 THEN [i \in 1..n |-> <<>>]
       ELSE SliceLoop(rows, n, total \div n, total % n, 0, 0)

----------------------------------------------------------------------------
(* ingest_bronze.py: main *)

\* (mutant) the master written anew from each batch
AppendMaster_replace(master, df) == File(df.cols, df.rows)

\* df.to_csv(master_path, mode="a", header=not master_path.exists())
AppendMaster(master, df) ==
    IF master.exists THEN File(master.cols, master.rows \o df.rows)
    ELSE File(df.cols, df.rows)

RECURSIVE IngestFiles(_, _, _, _)
\* the for loop over incoming_files: <<raw copies, master>> after it
IngestFiles(names, inc, rw, master) ==
    IF names = <<>> THEN <<rw, master>>
    ELSE LET f == Head(names)
         IN IngestFiles(Tail(names), inc, Put(rw, f, inc[f]), AppendMaster(master, inc[f]))

IngestStage ==
    LET names == SortedNames(DOMAIN incoming)
    IN IF names = <<>>
       THEN UNCHANGED <<raw, bronze_all, incoming>>
       ELSE LET r == IngestFiles(names, incoming, raw, bronze_all)
            IN /\ raw' = r[1]
               /\ bronze_all' = r[2]
               /\ incoming' = EmptyDir

----------------------------------------------------------------------------
(* transform_silver.py: main *)

MinutesPerDay == 1440

\* Series.dt.dayofweek of minute t, the first instant being a Monday 00:00
DayOfWeek(t) == (t \div MinutesPerDay) % 7

\* pd.Categorical(col).codes: position among the sorted distinct texts, -1
\* for an empty cell
CatCode(rows, c) ==
    IF c.k = "null" THEN -1
    ELSE Cardinality({x \in {rows[i].feature_cat : i \in DOMAIN rows} :
                         x.k # "null" /\ x.v < c.v})

Max(S) == CHOOSE x \in S : \A y \in S : x >= y

\* min-max scaling as the fraction <<numerator, denominator>>
Scaled(rows, r) ==
    LET nums == {rows[i].feature_num.v : i \in {j \in DOMAIN rows : rows[j].feature_num.k = "num"}}
    IN IF nums = {} \/ Max(nums) = Min(nums) THEN <<0, 1>>
       ELSE IF r.feature_num.k # "num" THEN <<0, 0>>
       ELSE <<r.feature_num.v - Min(nums), Max(nums) - Min(nums)>>

TransformRow(rows, r) ==
    [id |-> r.id, feature_num |-> r.feature_num, feature_cat |-> r.feature_cat,
     target |-> r.target, timestamp |-> r.timestamp,
     day_of_week |-> IF to_datetime(r.timestamp) = NaT THEN -1
                     ELSE DayOfWeek(to_datetime(r.timestamp)),
     feature_cat_code |-> CatCode(rows, r.feature_cat),
     feature_num_scaled |-> Scaled(rows, r)]

\* (mutant) no check that silver_all.csv is there: an empty table is written
TransformStage_unguarded ==
    transformed' =
        File(silver_all.cols \cup {"day_of_week", "feature_cat_code", "feature_num_scaled"},
             [i \in DOMAIN silver_all.rows |->
                 TransformRow(silver_all.rows, silver_all.rows[i])])

TransformStage ==
    IF ~silver_all.exists
    THEN UNCHANGED transformed
    ELSE transformed' =
            File(silver_all.cols \cup {"day_of_week", "feature_cat_code", "feature_num_scaled"},
                 [i \in DOMAIN silver_all.rows |->
                     TransformRow(silver_all.rows, silver_all.rows[i])])

----------------------------------------------------------------------------
(* build_gold.py: main *)

GoldColumns == {"id", "feature_num_scaled", "feature_cat_code", "day_of_week", "target"}

GoldRow(r) ==
    [id |-> r.id, feature_num_scaled |-> r.feature_num_scaled,
     feature_cat_code |-> r.feature_cat_code, day_of_week |-> r.day_of_week,
     target |-> r.target]

\* test_size as load_params returns it when params.yaml gives none: 0.2
DefaultTestSize == 2
Tenths == 10

\* round(frac * len) as Python rounds: a half goes to the even neighbour
SampleSize(len, frac) ==
    LET q == (frac * len) \div Tenths
        r == (frac * len) % Tenths
    IN IF 2 * r < Tenths THEN q
       ELSE IF 2 * r > Tenths THEN q + 1
       ELSE IF q % 2 = 0 THEN q ELSE q + 1

\* DataFrame.sample without replacement raises ValueError for frac > 1
SampleRaises(frac) == frac > Tenths

\* (mutant) the sample drawn with replacement: the first position twice
SamplePositions_replace(len, frac, draw) ==
    [p \in 1..SampleSize(len, frac) |-> IF draw = "low" THEN 1 ELSE len]

\* gold.sample(frac, random_state=seed): the positions drawn, in draw order.
\* The generator is fixed by the seed; which positions it yields is its own
\* business, so the environment picks them from either end of the table.
SamplePositions(len, frac, draw) ==
    LET m == SampleSize(len, frac)
    IN IF draw = "low" THEN [p \in 1..m |-> p] ELSE [p \in 1..m |-> len + 1 - p]

RECURSIVE DropPositions(_, _)
\* gold.drop(test.index)
DropPositions(rows, S) ==
    IF rows = <<>> THEN <<>>
    ELSE LET n == Len(rows)
             front == DropPositions(SubSeq(rows, 1, n - 1), S)
         IN IF n \in S THEN front ELSE Append(front, rows[n])

\* res is how the process ended: "error" is the ValueError of sample, raised
\* after gold.csv was written
BuildStage(res) ==
    IF ~transformed.exists
    THEN res = "skipped" /\ UNCHANGED <<gold, train, test>>
    ELSE LET cols == GoldColumns \cap transformed.cols
             g == [i \in DOMAIN transformed.rows |-> GoldRow(transformed.rows[i])]
             pos == SamplePositions(Len(g), test_size, rng)
         IN /\ gold' = File(cols, g)
            /\ IF SampleRaises(test_size)
               THEN res = "error" /\ UNCHANGED <<train, test>>
               ELSE /\ res = "ok"
                    /\ test' = File(cols, [p \in DOMAIN pos |-> g[pos[p]]])
                    /\ train' = File(cols, DropPositions(g, {pos[p] : p \in DOMAIN pos}))

----------------------------------------------------------------------------
(* simulate_incremental_ingest.py: main *)

NoManifest == [exists |-> FALSE, entries |-> <<>>]
\* the file holding the header line and the entries
Manifest(entries) == [exists |-> TRUE, entries |-> entries]

\* hashlib.md5 of a file's bytes, and the md5 dvc records for it: equal
\* contents give equal digests, and digests of different contents differ
Md5(file) == [md5 |-> file]
NoChecksum == [md5 |-> Absent]

\* raw_<name>.dvc as dvc add writes it, and the minimal one main writes
DvcFile(file) == [md5 |-> Md5(file), by |-> "dvc"]
FallbackFile(file) == [md5 |-> Md5(file), by |-> "main"]

\* (mutant) subprocess.run without check=True
Raised_unchecked(returncode) == FALSE

\* run_script: subprocess.run(cmd, check=True) raises CalledProcessError when
\* the script exits non-zero
Raised(returncode) == returncode # 0

NoCommit == 0
HeadCommit == 1

\* (mutant) the manifest entry written after the builder
StageOrder_record_last ==
    <<"ARRIVING", "INGESTING", "VALIDATING", "TRANSFORMING", "BUILDING",
      "RECORDING", "SNAPSHOT">>

\* the order of the steps main takes for each batch
StageOrder ==
    <<"ARRIVING", "INGESTING", "RECORDING", "VALIDATING", "TRANSFORMING",
      "BUILDING", "SNAPSHOT">>

\* the step after step st of a batch; "NEXT" after the last one
NextStage(st) ==
    LET i == CHOOSE j \in DOMAIN StageOrder : StageOrder[j] = st
    IN IF i = Len(StageOrder) THEN "NEXT" ELSE StageOrder[i + 1]

\* the step entry[2] of batch entry[1] is done: it is logged, and pc and k
\* move on
Step(entry) ==
    /\ log' = Append(log, entry)
    /\ IF NextStage(entry[2]) # "NEXT"
       THEN pc' = NextStage(entry[2]) /\ k' = k
       ELSE /\ k' = k + 1
            /\ pc' = IF k + 1 > Len(staged) THEN "DONE" ELSE StageOrder[1]

\* pc and k after step st of batch number k
Advance(st) == Step(<<staged[k], st>>)

\* (mutant) the calls of dvc and git not wrapped in try/except
AfterTools_unguarded(st, dvc_ok, git_ok) ==
    IF dvc_ok /\ git_ok THEN Step(<<staged[k], st, dvc_ok, git_ok>>)
    ELSE pc' = "ABORTED" /\ UNCHANGED <<k, log>>

\* lines 113-116 and 150-155: whatever dvc add and git rev-parse did, their
\* exceptions are caught and main goes on; the log keeps how they ended
AfterTools(st, dvc_ok, git_ok) == Step(<<staged[k], st, dvc_ok, git_ok>>)

\* (mutant) the reset leaving the files where they are
Rmtree_skipped(file) == file

\* shutil.rmtree of the folder a file is in
Rmtree(file) == Absent

\* what main does when the script of step st has exited with returncode
AfterScript(st, returncode) ==
    /\ failure' = IF returncode # 0 THEN <<staged[k], st>> ELSE failure
    /\ IF Raised(returncode)
       THEN pc' = "ABORTED" /\ UNCHANGED <<k, log>>
       ELSE Advance(st)

\* (mutant) the source read after the reset
ReadSource_after_reset ==
    IF source_is_bronze THEN (IF reset THEN File(bronze_all.cols, <<>>) ELSE bronze_all)
    ELSE source

\* (mutant) the new entry written above the old ones
ManifestAppend_on_top(m, entry) == Manifest(<<entry>> \o m.entries)

\* (mutant) the manifest opened with "w"
ManifestAppend_overwrite(m, entry) == Manifest(<<entry>>)

\* with manifest_path.open("a") as m: m.write(...)
ManifestAppend(m, entry) == Manifest(Append(m.entries, entry))

\* pd.read_csv(source_path)
ReadSource == IF source_is_bronze THEN bronze_all ELSE source

\* lines 49-87: read the source, split it, stage the batches, reset the data
\* folders, create the manifest
Prepare ==
    /\ pc = "PREPARING_BATCHES"
    /\ IF ~ReadSource.exists
       THEN \* SystemExit: source file not found
            /\ pc' = "ABORTED"
            /\ UNCHANGED <<valVars, ingestors, source, source_is_bronze, n_batches, reset, rng,
                           test_size, parts, staging, incoming, raw, sidecar,
                           manifest, transformed, gold, train, test, staged, k, log,
                           kept, failure>>
       ELSE \E ord \in SortOrders(ReadSource) :
            LET df == ReadSource
                ps == split_into_batches(df, n_batches, ord)
            IN /\ parts' = ps
               /\ staging' = [i \in DOMAIN ps |-> File(df.cols, ps[i])]
               /\ staged' = SortedNames(DOMAIN ps)
               /\ IF reset
                  THEN /\ incoming' = EmptyDir
                       /\ raw' = EmptyDir
                       /\ sidecar' = EmptyDir
                       /\ bronze_all' = Rmtree(bronze_all)
                       /\ silver_all' = Rmtree(silver_all)
                       /\ rejected_rows' = Rmtree(rejected_rows)
                       /\ transformed' = Rmtree(transformed)
                       /\ gold' = Rmtree(gold)
                       /\ train' = Rmtree(train)
                       /\ test' = Rmtree(test)
                       /\ manifest' = Manifest(<<>>)
                  ELSE /\ manifest' = IF manifest.exists THEN manifest ELSE Manifest(<<>>)
                       /\ UNCHANGED <<incoming, raw, sidecar, bronze_all, silver_all,
                                      rejected_rows, transformed, gold, train, test>>
               /\ kept' = manifest'.entries
               /\ k' = 1
               /\ pc' = IF Len(ps) = 0 THEN "DONE" ELSE StageOrder[1]
               /\ UNCHANGED <<pandera, ingestors, outcome, vruns, source, source_is_bronze,
                              n_batches, reset, rng, test_size, log, failure>>

\* shutil.copy2(batch, incoming_dest)
Arrive ==
    /\ pc = "ARRIVING"
    /\ incoming' = Put(incoming, staged[k], staging[staged[k]])
    /\ Advance("ARRIVING")
    /\ UNCHANGED <<valVars, ingestors, source, source_is_bronze, n_batches, reset, rng,
                   test_size, parts, staging, raw, sidecar, manifest, transformed,
                   gold, train, test, staged, kept, failure>>

\* run_script(repo_root, "ingest_bronze.py"); crashed: the process exits
\* non-zero before it has written anything
Ingest ==
    /\ pc = "INGESTING"
    /\ \E crashed \in BOOLEAN :
          IF crashed
          THEN UNCHANGED <<raw, bronze_all, incoming>> /\ AfterScript("INGESTING", 1)
          ELSE IngestStage /\ AfterScript("INGESTING", 0)
    /\ UNCHANGED <<silver_all, rejected_rows, pandera, ingestors, outcome, vruns, source,
                   source_is_bronze, n_batches, reset, rng, test_size, parts, staging,
                   sidecar, manifest, transformed, gold, train, test, staged, kept>>

\* pd.read_csv raises on a file that is not there or has no header line
ReadRaises(file) == ~file.exists \/ file.cols = {}

\* sum(1 for _ in f): the header line and one line for each row
Lines(file) == IF file.cols = {} THEN 0 ELSE 1 + Len(file.rows)

\* (mutant) the header line counted as a row
RowsInBatch_with_header(raw_copy, inbox, b) == Lines(raw_copy)

\* lines 96-110: the row count of the raw copy; when reading it raises, the
\* lines of data/incoming/<name> less one; when that raises too, 0
RowsInBatch(raw_copy, inbox, b) ==
    IF ~ReadRaises(raw_copy) THEN Len(raw_copy.rows)
    ELSE IF b \in DOMAIN inbox THEN Lines(inbox[b]) - 1
    ELSE 0

\* lines 96-159: count the rows of the raw copy, dvc add, checksum, git
\* rev-parse, append the manifest entry
Record ==
    /\ pc = "RECORDING"
    /\ LET b == staged[k]
           raw_copy == IF b \in DOMAIN raw THEN raw[b] ELSE Absent
       IN \E dvc_ok \in (IF raw_copy.exists THEN BOOLEAN ELSE {FALSE}), git_ok \in BOOLEAN :
          LET rows_in_batch == RowsInBatch(raw_copy, incoming, b)
              \* dvc add writes raw_<name>.dvc
              tracked == IF dvc_ok THEN Put(sidecar, b, DvcFile(raw_copy)) ELSE sidecar
              \* dvc_file.exists()
              present == b \in DOMAIN tracked
              \* raw_copy.open("rb") raises when the raw copy is not there
              checksum == IF present THEN tracked[b].md5
                          ELSE IF raw_copy.exists THEN Md5(raw_copy) ELSE NoChecksum
              commit == IF git_ok THEN HeadCommit ELSE NoCommit
          IN /\ sidecar' = IF present \/ ~raw_copy.exists THEN tracked
                            ELSE Put(tracked, b, FallbackFile(raw_copy))
             /\ manifest' = ManifestAppend(manifest,
                    [batch_name |-> b, rows_in_batch |-> rows_in_batch,
                     checksum |-> checksum, commit |-> commit])
             /\ AfterTools("RECORDING", dvc_ok, git_ok)
    /\ UNCHANGED <<valVars, ingestors, source, source_is_bronze, n_batches, reset, rng,
                   test_size, parts, staging, incoming, raw, transformed, gold, train,
                   test, staged, kept, failure>>

\* run_script(repo_root, "validate_silver.py")
Validate ==
    /\ pc = "VALIDATING"
    /\ \E crashed \in BOOLEAN :
          IF crashed
          THEN /\ UNCHANGED <<silver_all, rejected_rows, outcome>>
               /\ AfterScript("VALIDATING", 1)
          ELSE \E res \in {"skipped", "error", "ok"} :
                  /\ ValidateStage(res)
                  /\ outcome' = res
                  /\ AfterScript("VALIDATING", IF res = "error" THEN 1 ELSE 0)
    /\ UNCHANGED <<bronze_all, pandera, ingestors, vruns, source, source_is_bronze, n_batches,
                   reset, rng, test_size, parts, staging, incoming, raw, sidecar,
                   manifest, transformed, gold, train, test, staged, kept>>

\* run_script(repo_root, "transform_silver.py")
Transform ==
    /\ pc = "TRANSFORMING"
    /\ \E crashed \in BOOLEAN :
          IF crashed
          THEN UNCHANGED transformed /\ AfterScript("TRANSFORMING", 1)
          ELSE TransformStage /\ AfterScript("TRANSFORMING", 0)
    /\ UNCHANGED <<valVars, ingestors, source, source_is_bronze, n_batches, reset, rng,
                   test_size, parts, staging, incoming, raw, sidecar, manifest, gold,
                   train, test, staged, kept>>

\* run_script(repo_root, "build_gold.py")
Build ==
    /\ pc = "BUILDING"
    /\ \E crashed \in BOOLEAN :
          IF crashed
          THEN UNCHANGED <<gold, train, test>> /\ AfterScript("BUILDING", 1)
          ELSE \E res \in {"skipped", "error", "ok"} :
                  /\ BuildStage(res)
                  /\ AfterScript("BUILDING", IF res = "error" THEN 1 ELSE 0)
    /\ UNCHANGED <<valVars, ingestors, source, source_is_bronze, n_batches, reset, rng,
                   test_size, parts, staging, incoming, raw, sidecar, manifest,
                   transformed, staged, kept>>

\* lines 166-202: dvc add of the three folders and git commit, every failure
\* swallowed; nothing in the data folders changes
Snapshot ==
    /\ pc = "SNAPSHOT"
    /\ Advance("SNAPSHOT")
    /\ UNCHANGED <<valVars, ingestors, source, source_is_bronze, n_batches, reset, rng,
                   test_size, parts, staging, incoming, raw, sidecar, manifest,
                   transformed, gold, train, test, staged, kept, failure>>

Next ==
    \/ Prepare
    \/ Arrive
    \/ Ingest
    \/ Record
    \/ Validate
    \/ Transform
    \/ Build
    \/ Snapshot

----------------------------------------------------------------------------
(* The states a simulator run starts from *)

SimRowA == MkRow(Num(1), Num(10), Str(1), Num(0), Ts(1))
SimRowB == MkRow(Num(2), Num(200), Str(2), Num(1), Ts(0))
SimRowC == MkRow(Num(3), Num(1000), Str(26), Num(2), Ts(5))
SimRows == {SimRowA, SimRowB, SimRowC}

\* the shape of data/gold/train.csv, the default --source: no feature_num,
\* feature_cat or timestamp column
GoldShaped ==
    File({"id", "target"},
         << MkRow(Num(2), Null, Null, Num(1), Null), MkRow(Num(1), Null, Null, Num(0), Null) >>)

\* the one-row table an earlier run was fed
EarlierRow == SimRowA
EarlierTable == File(Columns, <<EarlierRow>>)
EarlierTransformed ==
    File(Columns \cup {"day_of_week", "feature_cat_code", "feature_num_scaled"},
         <<TransformRow(<<EarlierRow>>, EarlierRow)>>)
EarlierGold ==
    File(GoldColumns, <<GoldRow(TransformRow(<<EarlierRow>>, EarlierRow))>>)

\* an empty data area
StartClean ==
    /\ bronze_all = Absent /\ silver_all = Absent /\ rejected_rows = Absent
    /\ incoming = EmptyDir /\ raw = EmptyDir /\ sidecar = EmptyDir
    /\ staging = EmptyDir
    /\ manifest = NoManifest
    /\ transformed = Absent /\ gold = Absent /\ train = Absent /\ test = Absent

\* the data area after ingest_bronze.py has ingested table t as batch 1
StartIngested(t) ==
    /\ bronze_all = t /\ silver_all = Absent /\ rejected_rows = Absent
    /\ incoming = EmptyDir /\ raw = Put(EmptyDir, 1, t) /\ sidecar = EmptyDir
    /\ staging = EmptyDir
    /\ manifest = NoManifest
    /\ transformed = Absent /\ gold = Absent /\ train = Absent /\ test = Absent

\* the data area an earlier run of the simulator (one batch, EarlierTable,
\* no dvc, no git) left behind
StartAfterRun ==
    /\ bronze_all = EarlierTable
    /\ silver_all = EarlierTable
    /\ rejected_rows = File(Columns, <<>>)
    /\ incoming = EmptyDir
    /\ raw = Put(EmptyDir, 1, EarlierTable)
    /\ sidecar = Put(EmptyDir, 1, FallbackFile(EarlierTable))
    /\ staging = Put(EmptyDir, 1, EarlierTable)
    /\ manifest = Manifest(<<[batch_name |-> 1, rows_in_batch |-> 1,
                             checksum |-> Md5(EarlierTable), commit |-> NoCommit]>>)
    /\ transformed = EarlierTransformed
    /\ gold = EarlierGold
    /\ train = EarlierGold
    /\ test = File(GoldColumns, <<>>)

\* the installations the simulator is run in: without pandera and with it,
\* each with a seed of its own
Environments == {[pandera |-> FALSE, rng |-> "low"], [pandera |-> TRUE, rng |-> "high"]}

\* a test_size above 1, which DataFrame.sample refuses
OversizedTestSize == 15
\* a test_size that puts a row of a two-row table into the test part
HalfTestSize == 5

\* no row occurs twice in the source; rows repeat in bronze_all when a run
\* without reset adds to what is there
Distinct(rows) == \A i, j \in DOMAIN rows : rows[i] = rows[j] => i = j

Init ==
    /\ \E env \in Environments : pandera = env.pandera /\ rng = env.rng
    /\ test_size \in {DefaultTestSize, HalfTestSize, OversizedTestSize}
    /\ n_batches \in 1..MaxN
    /\ reset \in BOOLEAN
    /\ \/ \E m \in 0..MaxSrcRows : \E rows \in [1..m -> SimRows] :
             /\ Distinct(rows)
             /\ source = File(Columns, rows)
             /\ \/ source_is_bronze = FALSE /\ StartClean
                \/ source_is_bronze = FALSE /\ StartAfterRun
                \/ source_is_bronze \in BOOLEAN /\ StartIngested(source)
       \/ \* the bronze master named as the source, and there is none
          /\ source = Absent /\ source_is_bronze = TRUE /\ StartClean
       \/ \* a source without the required columns: bronze_all must be created
          \* from it, an append under another header would shift the cells
          /\ source = GoldShaped /\ source_is_bronze = FALSE
          /\ \/ StartClean
             \/ reset /\ StartAfterRun
    /\ outcome = "none"
    /\ vruns = 0
    /\ parts = <<>>
    /\ staged = <<>>
    /\ k = 0
    /\ log = <<>>
    /\ kept = <<>>
    /\ failure = <<>> /\ ingestors = <<>>
    /\ pc = "PREPARING_BATCHES"

Spec == Init /\ [][Next]_vars

\* main is a sequential program that is not held up: it takes its next step
SpecFair == Spec /\ WF_vars(Next)

\* the run that leaves StartAfterRun behind has ended
EarlierRunEnded == pc = "DONE" /\ StartAfterRun

----------------------------------------------------------------------------
(* split_into_batches on its own *)

\* a table of m rows with the ids m, m-1, ..., 1: with_ts tells whether it
\* has a timestamp column, and then the timestamps ascend with the rows
SplitTable(m, with_ts) ==
    File(IF with_ts THEN {"id", "timestamp"} ELSE {"id"},
         [i \in 1..m |-> MkRow(Num(m + 1 - i), Null, Null, Null,
                               IF with_ts THEN Ts(i) ELSE Null)])

InitSplit ==
    /\ \E m \in 0..MaxTotal, with_ts \in BOOLEAN : source = SplitTable(m, with_ts)
    /\ n_batches \in 1..MaxSplitN
    /\ source_is_bronze = FALSE /\ reset = FALSE /\ rng = "low" /\ pandera = FALSE
    /\ test_size = DefaultTestSize /\ failure = <<>> /\ ingestors = <<>>
    /\ StartClean
    /\ outcome = "none" /\ vruns = 0
    /\ parts = <<>> /\ staged = <<>> /\ k = 0 /\ log = <<>> /\ kept = <<>>
    /\ pc = "CALLING"

\* parts = split_into_batches(df, args.n)
Split ==
    /\ pc = "CALLING"
    /\ \E ord \in SortOrders(source) : parts' = split_into_batches(source, n_batches, ord)
    /\ pc' = "RETURNED"
    /\ UNCHANGED <<valVars, ingestors, source, source_is_bronze, n_batches, reset, rng,
                   test_size, staging, incoming, raw, sidecar, manifest, transformed,
                   gold, train, test, staged, k, log, kept, failure>>

NextSplit == Split
SpecSplit == InitSplit /\ [][NextSplit]_vars

----------------------------------------------------------------------------
(* The builder on its own: build_gold.py run on a transformed table *)

\* a validated table of m rows: the ids differ, as they do in every
\* silver_all.csv, the targets alternate
ValidRows(m) == [i \in 1..m |-> MkRow(Num(i), Num(10 * i), Str(i % 3), Num(i % 2), Ts(i))]

TransformedColumns == Columns \cup {"day_of_week", "feature_cat_code", "feature_num_scaled"}

\* transformed_silver.csv as transform_silver.py writes it from those rows
TransformedTable(m) ==
    File(TransformedColumns, [i \in 1..m |-> TransformRow(ValidRows(m), ValidRows(m)[i])])

\* train.csv and test.csv of an earlier build over one row
StaleTrain == File(GoldColumns, <<GoldRow(TransformRow(ValidRows(1), ValidRows(1)[1]))>>)
StaleTest == File(GoldColumns, <<>>)

\* the test_size values of params.yaml that are tried: 0, 0.2, 0.5, 1, 1.5
TestSizes == {0, DefaultTestSize, HalfTestSize, Tenths, OversizedTestSize}

InitBuild ==
    /\ \/ \E m \in 0..MaxGold : transformed = TransformedTable(m)
       \/ transformed = Absent
    /\ test_size \in TestSizes
    /\ rng \in {"low", "high"}
    /\ \/ gold = Absent /\ train = Absent /\ test = Absent
       \/ gold = StaleTrain /\ train = StaleTrain /\ test = StaleTest
    /\ bronze_all = Absent /\ silver_all = Absent /\ rejected_rows = Absent
    /\ pandera = FALSE /\ outcome = "none" /\ vruns = 0
    /\ source = Absent /\ source_is_bronze = FALSE /\ n_batches = 1 /\ reset = FALSE
    /\ parts = <<>> /\ staging = EmptyDir /\ incoming = EmptyDir
    /\ raw = EmptyDir /\ sidecar = EmptyDir /\ manifest = NoManifest
    /\ staged = <<>> /\ k = 0 /\ log = <<>> /\ kept = <<>> /\ failure = <<>> /\ ingestors = <<>>
    /\ pc = "BUILD"

\* one run of build_gold.py as a process
build_gold ==
    /\ pc = "BUILD"
    /\ \E res \in {"skipped", "error", "ok"} :
          /\ BuildStage(res)
          /\ pc' = IF res = "ok" THEN "BUILT"
                   ELSE IF res = "error" THEN "BUILD_FAILED" ELSE "BUILD_SKIPPED"
    /\ UNCHANGED <<valVars, ingestors, source, source_is_bronze, n_batches, reset, rng,
                   test_size, parts, staging, incoming, raw, sidecar, manifest,
                   transformed, staged, k, log, kept, failure>>

NextBuild == build_gold
SpecBuild == InitBuild /\ [][NextBuild]_vars

----------------------------------------------------------------------------
(* The validator on its own: validate_silver.py run on a bronze snapshot *)

\* <<id, feature_num, feature_cat, target, timestamp>> defects of a row whose
\* id is i and whose timestamp is minute t; categories A, B, C are 1, 2, 3
GoodVal == <<Num(10), Str(1), Num(0)>>
BadVal == <<Num(1000), Str(26), Num(2)>>

RowVariants(i, t) ==
    << MkRow(Num(i), Num(10), Str(1), Num(0), Ts(t)),
      MkRow(Num(i), Num(200), Str(2), Num(1), Ts(t)),
      MkRow(Num(i), Num(-100), Str(3), Num(1), Ts(t)),
      MkRow(Num(i), Num(201), Str(1), Num(0), Ts(t)),
      MkRow(Num(i), Num(-101), Str(1), Num(1), Ts(t)),
      MkRow(Num(i), Str(0), Str(1), Num(0), Ts(t)),
      MkRow(Num(i), Null, Str(1), Num(1), Ts(t)),
      MkRow(Num(i), Num(10), Str(1), Num(2), Ts(t)),
      MkRow(Num(i), Num(10), Str(1), Null, Ts(t)),
      MkRow(Num(i), Num(10), Str(26), Num(1), Ts(t)),
      MkRow(Num(i), Num(10), Null, Num(0), Ts(t)),
      MkRow(Null, Num(10), Str(1), Num(0), Ts(t)),
      MkRow(Num(i), Num(10), Str(1), Num(1), Str(0)),
      MkRow(Num(i), Num(10), Str(1), Num(0), Null),
      MkRow(Num(i), Num(1000), Str(26), Num(2), Str(0)) >>

\* rows that differ in the keys the table-wide rules read: the id is the row
\* number or an id shared with other rows, the timestamp any of five texts
SharedId == 9
KeyChoices ==
    BOOLEAN \X {GoodVal, BadVal} \X {Ts(0), Ts(1), Ts(4), Ts(5), Str(0)}
KeyRows(n, f) ==
    [i \in 1..n |->
        MkRow(IF f[i][1] THEN Num(SharedId) ELSE Num(i),
              f[i][2][1], f[i][2][2], f[i][2][3], f[i][3])]

\* regular rows (id = row number, one row a minute) that differ in the values
\* the per-row rules read; f picks each row's variant
ValueRows(n, f) == [i \in 1..n |-> RowVariants(i, i - 1)[f[i]]]

DropColumn(df, c) ==
    File(df.cols \ {c}, [i \in DOMAIN df.rows |-> [df.rows[i] EXCEPT ![c] = Null]])

\* tables that lack a column
SchemaTables ==
    {DropColumn(File(Columns, [i \in 1..n |-> MkRow(Num(i), Num(10), Str(1), Num(0), Ts(i - 1))]), c) :
        n \in 0..MaxRows, c \in Columns}

\* what an earlier validation of an earlier snapshot left in data/silver
PriorSilver == File(Columns, <<MkRow(Num(7), Num(10), Str(1), Num(0), Ts(0))>>)
PriorRejected == File(Columns, <<MkRow(Num(8), Num(1000), Str(1), Num(0), Ts(9))>>)

InitValidate ==
    /\ pandera \in BOOLEAN
    /\ \/ /\ \E n \in 0..MaxRows :
                \/ \E f \in [1..n -> KeyChoices] :
                      bronze_all = File(Columns, KeyRows(n, f))
                \/ \E f \in [1..n -> DOMAIN RowVariants(1, 0)] :
                      bronze_all = File(Columns, ValueRows(n, f))
          /\ silver_all = Absent
          /\ rejected_rows = Absent
       \/ /\ bronze_all \in SchemaTables \cup {Absent}
          /\ \/ silver_all = Absent /\ rejected_rows = Absent
             \/ silver_all = PriorSilver /\ rejected_rows = PriorRejected
    /\ outcome = "none"
    /\ vruns = 0
    /\ source = Absent /\ source_is_bronze = FALSE /\ n_batches = 1 /\ reset = FALSE
    /\ rng = "low" /\ test_size = DefaultTestSize /\ failure = <<>> /\ ingestors = <<>>
    /\ parts = <<>> /\ staging = EmptyDir /\ incoming = EmptyDir
    /\ raw = EmptyDir /\ sidecar = EmptyDir /\ manifest = NoManifest
    /\ transformed = Absent /\ gold = Absent /\ train = Absent /\ test = Absent
    /\ pc = "IDLE" /\ staged = <<>> /\ k = 0 /\ log = <<>>
    /\ kept = <<>>

\* one run of validate_silver.py as a process
validate_silver ==
    /\ vruns < MaxRuns
    /\ vruns' = vruns + 1
    /\ \E res \in {"skipped", "error", "ok"} :
          /\ ValidateStage(res)
          /\ outcome' = res
    /\ UNCHANGED <<bronze_all, pandera, ingestors, simVars>>

NextValidate == validate_silver

SpecValidate == InitValidate /\ [][NextValidate]_vars

----------------------------------------------------------------------------
(* The four scripts run one after the other on an inbox, as
   test_end_to_end_pipeline runs them *)

InitPipeline ==
    /\ pandera \in BOOLEAN
    /\ \E n \in 0..MaxRows :
          \/ \E f \in [1..n -> KeyChoices] :
                incoming = Put(EmptyDir, 1, File(Columns, KeyRows(n, f)))
          \/ \E f \in [1..n -> DOMAIN RowVariants(1, 0)] :
                incoming = Put(EmptyDir, 1, File(Columns, ValueRows(n, f)))
    /\ bronze_all = Absent /\ silver_all = Absent /\ rejected_rows = Absent
    /\ transformed = Absent /\ gold = Absent /\ train = Absent /\ test = Absent
    /\ raw = EmptyDir /\ sidecar = EmptyDir /\ manifest = NoManifest
    /\ outcome = "none" /\ vruns = 0
    /\ source = Absent /\ source_is_bronze = FALSE /\ n_batches = 1 /\ reset = FALSE
    /\ rng = "low" /\ test_size = DefaultTestSize
    /\ parts = <<>> /\ staging = EmptyDir
    /\ staged = <<>> /\ k = 0 /\ log = <<>> /\ kept = <<>> /\ failure = <<>> /\ ingestors = <<>>
    /\ pc = "INGEST"

\* run("ingest_bronze.py")
RunIngest ==
    /\ pc = "INGEST"
    /\ IngestStage
    /\ pc' = "VALIDATE"
    /\ UNCHANGED <<silver_all, rejected_rows, pandera, ingestors, outcome, vruns, source,
                   source_is_bronze, n_batches, reset, rng, test_size, parts, staging,
                   sidecar, manifest, transformed, gold, train, test, staged, k, log,
                   kept, failure>>

\* run("validate_silver.py")
RunValidate ==
    /\ pc = "VALIDATE"
    /\ \E res \in {"skipped", "error", "ok"} :
          /\ ValidateStage(res)
          /\ outcome' = res
          /\ pc' = IF res = "error" THEN "FAILED" ELSE "TRANSFORM"
    /\ UNCHANGED <<bronze_all, pandera, ingestors, vruns, simVars_but_pc>>

\* run("transform_silver.py")
RunTransform ==
    /\ pc = "TRANSFORM"
    /\ TransformStage
    /\ pc' = "BUILD"
    /\ UNCHANGED <<valVars, ingestors, source, source_is_bronze, n_batches, reset, rng,
                   test_size, parts, staging, incoming, raw, sidecar, manifest, gold,
                   train, test, staged, k, log, kept, failure>>

\* run("build_gold.py") is build_gold
NextPipeline == RunIngest \/ RunValidate \/ RunTransform \/ build_gold
SpecPipeline == InitPipeline /\ [][NextPipeline]_vars

----------------------------------------------------------------------------
(* The ingestor on its own: batch files land in data/incoming, and
   ingest_bronze.py is run whenever someone runs it *)

\* batch numbers whose file names sort differently from the numbers:
\* batch_01.csv < batch_100.csv < batch_11.csv
IngestNames == {1, 11, 100}

IngestTables ==
    {File(Columns, <<>>), File(Columns, <<SimRowA>>), File(Columns, <<SimRowB, SimRowC>>)}

RECURSIVE RowsHeld(_)
\* the rows in all files of a directory
RowsHeld(dir) ==
    IF DOMAIN dir = {} THEN 0
    ELSE LET n == CHOOSE x \in DOMAIN dir : TRUE
         IN Len(dir[n].rows) + RowsHeld([i \in DOMAIN dir \ {n} |-> dir[i]])

InitIngest ==
    /\ incoming \in {EmptyDir} \cup {Put(EmptyDir, n, t) : n \in IngestNames, t \in IngestTables}
    /\ bronze_all = Absent /\ raw = EmptyDir
    /\ silver_all = Absent /\ rejected_rows = Absent
    /\ transformed = Absent /\ gold = Absent /\ train = Absent /\ test = Absent
    /\ sidecar = EmptyDir /\ manifest = NoManifest
    /\ pandera = FALSE /\ outcome = "none" /\ vruns = 0
    /\ source = Absent /\ source_is_bronze = FALSE /\ n_batches = 1 /\ reset = FALSE
    /\ rng = "low" /\ test_size = DefaultTestSize
    /\ parts = <<>> /\ staging = EmptyDir
    /\ staged = <<>> /\ k = 0 /\ log = <<>> /\ kept = <<>> /\ failure = <<>> /\ ingestors = <<>>
    /\ pc = "SHELL"

\* a batch file is put into data/incoming; its name may have been used before
DeliverBatch ==
    /\ \E n \in IngestNames \ DOMAIN incoming, t \in IngestTables :
          /\ Len(bronze_all.rows) + RowsHeld(incoming) + Len(t.rows) <= MaxBronzeRows
          /\ incoming' = Put(incoming, n, t)
    /\ UNCHANGED <<valVars, ingestors, source, source_is_bronze, n_batches, reset, rng,
                   test_size, parts, staging, raw, sidecar, manifest, transformed,
                   gold, train, test, pc, staged, k, log, kept, failure>>

\* one run of ingest_bronze.py as a process
ingest_bronze ==
    /\ IngestStage
    /\ UNCHANGED <<silver_all, rejected_rows, pandera, ingestors, outcome, vruns, source,
                   source_is_bronze, n_batches, reset, rng, test_size, parts, staging,
                   sidecar, manifest, transformed, gold, train, test, pc, staged, k,
                   log, kept, failure>>

NextIngest == DeliverBatch \/ ingest_bronze
SpecIngest == InitIngest /\ [][NextIngest]_vars

----------------------------------------------------------------------------
(* The simulator on a disk where a raw copy can be lost: between the run of
   ingest_bronze.py and the count of line 102 something else removes the raw
   copy of the batch or empties it *)

\* a file cut down to nothing: no header line, no rows
Emptied == File({}, <<>>)

Remove(dir, name) == [i \in DOMAIN dir \ {name} |-> dir[i]]

LoseRawCopy ==
    /\ pc = "RECORDING"
    /\ staged[k] \in DOMAIN raw
    /\ ~ReadRaises(raw[staged[k]])
    /\ \/ raw' = Remove(raw, staged[k])
       \/ raw' = Put(raw, staged[k], Emptied)
    /\ UNCHANGED <<valVars, ingestors, source, source_is_bronze, n_batches, reset, rng,
                   test_size, parts, staging, incoming, sidecar, manifest,
                   transformed, gold, train, test, pc, staged, k, log, kept, failure>>

\* runs over at most two batches of a source file, default test_size
InitRawLost ==
    /\ Init
    /\ n_batches <= 2 /\ test_size = DefaultTestSize /\ ~source_is_bronze

NextRawLost == Next \/ LoseRawCopy
SpecRawLost == InitRawLost /\ [][NextRawLost]_vars

----------------------------------------------------------------------------
(* The three stage scripts run by hand, in any order, on a data area in
   which any of the files may be missing *)

MaxScripts == 3

Scripts == {"validate_silver.py", "transform_silver.py", "build_gold.py"}

InitStages ==
    /\ bronze_all \in {Absent, File(Columns, ValidRows(2))}
    /\ \/ silver_all = Absent /\ rejected_rows \in {Absent, PriorRejected}
       \/ silver_all = PriorSilver /\ rejected_rows = PriorRejected
    /\ transformed \in {Absent, TransformedTable(1)}
    /\ \/ gold = Absent /\ train = Absent /\ test = Absent
       \/ gold = StaleTrain /\ train = StaleTrain /\ test = StaleTest
    /\ pandera = FALSE /\ outcome = "none" /\ vruns = 0
    /\ source = Absent /\ source_is_bronze = FALSE /\ n_batches = 1 /\ reset = FALSE
    /\ rng = "low" /\ test_size = DefaultTestSize
    /\ parts = <<>> /\ staging = EmptyDir /\ incoming = EmptyDir
    /\ raw = EmptyDir /\ sidecar = EmptyDir /\ manifest = NoManifest
    /\ staged = <<>> /\ k = 0 /\ log = <<>> /\ kept = <<>> /\ failure = <<>> /\ ingestors = <<>>
    /\ pc = "SHELL"

\* python src/<script>: the log keeps the script and how its process ended
RunScript ==
    /\ Len(log) < MaxScripts
    /\ \E script \in Scripts, res \in {"skipped", "error", "ok"} :
          /\ log' = Append(log, <<script, res>>)
          /\ outcome' = res
          /\ IF script = "validate_silver.py"
             THEN ValidateStage(res) /\ UNCHANGED <<transformed, gold, train, test>>
             ELSE IF script = "transform_silver.py"
             THEN /\ TransformStage
                  /\ res = IF silver_all.exists THEN "ok" ELSE "skipped"
                  /\ UNCHANGED <<silver_all, rejected_rows, gold, train, test>>
             ELSE BuildStage(res) /\ UNCHANGED <<silver_all, rejected_rows, transformed>>
    /\ UNCHANGED <<bronze_all, pandera, ingestors, vruns, source, source_is_bronze, n_batches,
                   reset, rng, test_size, parts, staging, incoming, raw, sidecar,
                   manifest, pc, staged, k, kept, failure>>

NextStages == RunScript
SpecStages == InitStages /\ [][NextStages]_vars

----------------------------------------------------------------------------
(* The validator applied to what it accepted: silver_all.csv is handed to
   validate_silver.py as its bronze table *)

MaxGateRows == 4

\* one row a minute in pairs, the pairs four minutes apart: 0, 1, 4, 5, 8, ...
GateMinute(i) == 4 * ((i - 1) \div 2) + ((i - 1) % 2)

\* <<feature_num, feature_cat, target>>: a good row, feature_num below the
\* range, a category the pandera schema does not know, an empty target, an
\* empty category
GateValues ==
    { <<Num(10), Str(1), Num(0)>>, <<Num(-101), Str(1), Num(1)>>,
      <<Num(10), Str(26), Num(1)>>, <<Num(10), Str(1), Null>>,
      <<Num(10), Null, Num(0)>> }

GateRows(n, f) ==
    [i \in 1..n |-> MkRow(Num(i), f[i][1], f[i][2], f[i][3], Ts(GateMinute(i)))]

InitRegate ==
    /\ pandera \in BOOLEAN
    /\ \E n \in 0..MaxGateRows : \E f \in [1..n -> GateValues] :
          bronze_all = File(Columns, GateRows(n, f))
    /\ silver_all = Absent /\ rejected_rows = Absent
    /\ outcome = "none" /\ vruns = 0
    /\ source = Absent /\ source_is_bronze = FALSE /\ n_batches = 1 /\ reset = FALSE
    /\ rng = "low" /\ test_size = DefaultTestSize /\ failure = <<>> /\ ingestors = <<>>
    /\ parts = <<>> /\ staging = EmptyDir /\ incoming = EmptyDir
    /\ raw = EmptyDir /\ sidecar = EmptyDir /\ manifest = NoManifest
    /\ transformed = Absent /\ gold = Absent /\ train = Absent /\ test = Absent
    /\ pc = "IDLE" /\ staged = <<>> /\ k = 0 /\ log = <<>> /\ kept = <<>>

\* silver_all.csv put in the place of bronze_all.csv
Refeed ==
    /\ pc = "IDLE" /\ outcome = "ok"
    /\ bronze_all' = silver_all
    /\ outcome' = "none"
    /\ pc' = "REFED"
    /\ UNCHANGED <<silver_all, rejected_rows, pandera, ingestors, vruns, simVars_but_pc>>

NextRegate == validate_silver \/ Refeed
SpecRegate == InitRegate /\ [][NextRegate]_vars

----------------------------------------------------------------------------
(* Reset runs of the simulator over sources whose rows are rejected only
   for what other rows of the table hold: a shared id, a gap *)

GapRowA == MkRow(Num(1), Num(10), Str(1), Num(0), Ts(0))
GapRowB == MkRow(Num(2), Num(20), Str(2), Num(1), Ts(1))
\* four minutes after GapRowB
GapRowC == MkRow(Num(3), Num(30), Str(3), Num(0), Ts(5))
\* the id of GapRowA
GapRowD == MkRow(Num(1), Num(40), Str(1), Num(1), Ts(2))
GapRows == {GapRowA, GapRowB, GapRowC, GapRowD}

InitAccumulate ==
    /\ \E env \in Environments : pandera = env.pandera /\ rng = env.rng
    /\ test_size = DefaultTestSize
    /\ n_batches \in 1..MaxN
    /\ reset = TRUE
    /\ source_is_bronze = FALSE
    /\ \E m \in 0..MaxSrcRows : \E rows \in [1..m -> GapRows] :
          Distinct(rows) /\ source = File(Columns, rows)
    /\ StartClean \/ StartAfterRun
    /\ outcome = "none" /\ vruns = 0
    /\ parts = <<>> /\ staged = <<>> /\ k = 0 /\ log = <<>> /\ kept = <<>>
    /\ failure = <<>> /\ ingestors = <<>>
    /\ pc = "PREPARING_BATCHES"

SpecAccumulate == InitAccumulate /\ [][Next]_vars

----------------------------------------------------------------------------
(* Reset runs of the simulator over a few batches of a few rows and over a
   hundred batches of an empty source, on a machine that has neither dvc nor
   git *)

\* the first batch count at which f"batch_{i:02d}.csv" has a three-digit name
LongN == 100

InitLong ==
    /\ pandera = FALSE /\ rng = "low"
    /\ test_size = DefaultTestSize
    /\ n_batches \in {MaxN, LongN}
    /\ reset = TRUE
    /\ source_is_bronze = FALSE
    /\ \/ n_batches = MaxN /\ source = File(Columns, ValidRows(MaxSrcRows))
       \/ n_batches = LongN /\ source = File(Columns, <<>>)
    /\ StartClean
    /\ outcome = "none" /\ vruns = 0
    /\ parts = <<>> /\ staged = <<>> /\ k = 0 /\ log = <<>> /\ kept = <<>>
    /\ failure = <<>> /\ ingestors = <<>>
    /\ pc = "PREPARING_BATCHES"

\* the manifest entry taken where dvc add and git rev-parse both fail
RecordNoTools ==
    /\ Record
    /\ log'[Len(log')] = <<staged[k], "RECORDING", FALSE, FALSE>>

NextLong ==
    \/ Prepare
    \/ Arrive
    \/ Ingest
    \/ RecordNoTools
    \/ Validate
    \/ Transform
    \/ Build
    \/ Snapshot

SpecLong == InitLong /\ [][NextLong]_vars

----------------------------------------------------------------------------
(* The simulator run again and again on one data area, with or without
   reset, a run possibly having been killed between the copy of a batch into
   bronze and its manifest entry *)

MaxRerunRows == 2
MaxRerunN == 2

InitRerun ==
    /\ pandera = FALSE /\ rng = "low"
    /\ test_size = DefaultTestSize
    /\ n_batches \in 1..MaxRerunN
    /\ reset \in BOOLEAN
    /\ source_is_bronze = FALSE
    /\ \E m \in 1..MaxRerunRows : \E rows \in [1..m -> SimRows] :
          Distinct(rows) /\ source = File(Columns, rows)
    /\ StartClean
    /\ outcome = "none" /\ vruns = 0
    /\ parts = <<>> /\ staged = <<>> /\ k = 0 /\ log = <<>> /\ kept = <<>>
    /\ failure = <<>> /\ ingestors = <<>>
    /\ pc = "PREPARING_BATCHES"

\* the process is killed: inside ingest_bronze.py right after the copy2 of
\* its line 27 for the first file of the inbox, or in main after
\* ingest_bronze.py has returned and before the manifest entry of line 158
Interrupt ==
    /\ \/ /\ pc = "INGESTING"
          /\ LET f == SortedNames(DOMAIN incoming)[1]
             IN raw' = Put(raw, f, incoming[f])
       \/ /\ pc = "RECORDING"
          /\ UNCHANGED raw
    /\ pc' = "KILLED"
    /\ UNCHANGED <<valVars, ingestors, source, source_is_bronze, n_batches, reset, rng,
                   test_size, parts, staging, incoming, sidecar, manifest,
                   transformed, gold, train, test, staged, k, log, kept, failure>>

\* main is started again on the data area the last run left, with or
\* without --no-reset; without reset only while bronze_all stays within
\* MaxBronzeRows
Rerun ==
    /\ pc \in {"KILLED", "DONE", "ABORTED"}
    /\ \E r \in BOOLEAN :
          /\ r \/ Len(bronze_all.rows) + Len(source.rows) <= MaxBronzeRows
          /\ reset' = r
    /\ pc' = "PREPARING_BATCHES"
    /\ parts' = <<>> /\ staged' = <<>> /\ k' = 0
    /\ log' = <<>> /\ kept' = <<>> /\ failure' = <<>>
    /\ UNCHANGED <<valVars, ingestors, source, source_is_bronze, n_batches, rng, test_size,
                   staging, incoming, raw, sidecar, manifest, transformed, gold,
                   train, test>>

NextRerun == Next \/ Interrupt \/ Rerun
SpecRerun == InitRerun /\ [][NextRerun]_vars

----------------------------------------------------------------------------
(* Two ingest_bronze.py processes started on one data area, the statements of
   their main interleaved *)

Instances == {1, 2}
MaxInboxFiles == 2

\* an earlier batch, ingested before the two processes start
PriorBatch == 0
PriorTable == File(Columns, <<SimRowC>>)

\* the line of column names, as it reads when it stands among the rows
HeaderCell == [k |-> "header", v |-> 0]
HeaderLine == MkRow(HeaderCell, HeaderCell, HeaderCell, HeaderCell, HeaderCell)

\* df.to_csv(master_path, mode="a", header=header, index=False): the lines
\* are written at the end of whatever the file holds by then
ToCsvAppend(master, df, header) ==
    IF master.exists
    THEN File(master.cols, master.rows \o (IF header THEN <<HeaderLine>> ELSE <<>>) \o df.rows)
    ELSE File(IF header THEN df.cols ELSE {}, df.rows)

\* a process that has not reached line 18 yet
NotStarted == [at |-> "glob", incoming_files |-> <<>>, i |-> 0, df |-> Absent, header |-> FALSE]

\* the staged batch files have all been put into the inbox
InitConcurrent ==
    /\ \E names \in SUBSET (1..MaxInboxFiles) \ {{}} :
          \E t \in [names -> {File(Columns, <<>>), File(Columns, <<SimRowA>>),
                              File(Columns, <<SimRowA, SimRowB>>)}] :
             staging = t /\ incoming = t
    /\ \E prior \in BOOLEAN :
          /\ bronze_all = IF prior THEN PriorTable ELSE Absent
          /\ raw = IF prior THEN Put(EmptyDir, PriorBatch, PriorTable) ELSE EmptyDir
    /\ silver_all = Absent /\ rejected_rows = Absent
    /\ transformed = Absent /\ gold = Absent /\ train = Absent /\ test = Absent
    /\ sidecar = EmptyDir /\ manifest = NoManifest
    /\ pandera = FALSE /\ outcome = "none" /\ vruns = 0
    /\ source = Absent /\ source_is_bronze = FALSE /\ n_batches = 1 /\ reset = FALSE
    /\ rng = "low" /\ test_size = DefaultTestSize
    /\ parts = <<>>
    /\ staged = <<>> /\ k = 0 /\ log = <<>> /\ kept = <<>> /\ failure = <<>>
    /\ pc = "SHELL"
    /\ ingestors = [p \in Instances |-> NotStarted]

\* what no ingest_bronze.py process writes
NotIngested == <<silver_all, rejected_rows, pandera, outcome, vruns, source,
                 source_is_bronze, n_batches, reset, rng, test_size, parts, staging,
                 sidecar, manifest, transformed, gold, train, test, pc, staged, k,
                 log, kept, failure>>

\* the file f of the loop in process p
CurrentFile(p) == ingestors[p].incoming_files[ingestors[p].i]

\* lines 18-21: incoming_files = sorted(incoming.glob("*.csv")); return
\* when there is none
Glob(p) ==
    /\ ingestors[p].at = "glob"
    /\ LET files == SortedNames(DOMAIN incoming)
       IN ingestors' = [ingestors EXCEPT ![p] =
              [@ EXCEPT !.incoming_files = files, !.i = 1,
                        !.at = IF files = <<>> THEN "returned" ELSE "copy2"]]
    /\ UNCHANGED <<bronze_all, raw, incoming, NotIngested>>

\* line 27: shutil.copy2(f, raw_copy); FileNotFoundError when f is gone
Copy2(p) ==
    /\ ingestors[p].at = "copy2"
    /\ LET f == CurrentFile(p)
       IN IF f \in DOMAIN incoming
          THEN /\ raw' = Put(raw, f, incoming[f])
               /\ ingestors' = [ingestors EXCEPT ![p].at = "read_csv"]
          ELSE /\ UNCHANGED raw
               /\ ingestors' = [ingestors EXCEPT ![p].at = "raised"]
    /\ UNCHANGED <<bronze_all, incoming, NotIngested>>

\* line 30: df = pd.read_csv(f); FileNotFoundError when f is gone
ReadCsv(p) ==
    /\ ingestors[p].at = "read_csv"
    /\ LET f == CurrentFile(p)
       IN IF f \in DOMAIN incoming
          THEN ingestors' = [ingestors EXCEPT ![p] =
                   [@ EXCEPT !.df = incoming[f], !.at = "header"]]
          ELSE ingestors' = [ingestors EXCEPT ![p].at = "raised"]
    /\ UNCHANGED <<bronze_all, raw, incoming, NotIngested>>

\* line 31: header = not master_path.exists()
Header(p) ==
    /\ ingestors[p].at = "header"
    /\ ingestors' = [ingestors EXCEPT ![p] =
           [@ EXCEPT !.header = ~bronze_all.exists, !.at = "to_csv"]]
    /\ UNCHANGED <<bronze_all, raw, incoming, NotIngested>>

\* line 32: df.to_csv(master_path, mode="a", header=header, index=False)
ToCsv(p) ==
    /\ ingestors[p].at = "to_csv"
    /\ bronze_all' = ToCsvAppend(bronze_all, ingestors[p].df, ingestors[p].header)
    /\ ingestors' = [ingestors EXCEPT ![p].at = "unlink"]
    /\ UNCHANGED <<raw, incoming, NotIngested>>

\* (mutant) f.unlink(missing_ok=True)
Unlink_missing_ok(p) ==
    /\ ingestors[p].at = "unlink"
    /\ incoming' = Remove(incoming, CurrentFile(p))
    /\ ingestors' = [ingestors EXCEPT ![p] =
           [@ EXCEPT !.i = @ + 1,
                     !.at = IF ingestors[p].i = Len(ingestors[p].incoming_files)
                            THEN "returned" ELSE "copy2"]]
    /\ UNCHANGED <<bronze_all, raw, NotIngested>>

\* line 35: f.unlink(), FileNotFoundError when f is gone; then the next
\* file of the loop, or the return of main
Unlink(p) ==
    /\ ingestors[p].at = "unlink"
    /\ LET f == CurrentFile(p)
       IN IF f \in DOMAIN incoming
          THEN /\ incoming' = Remove(incoming, f)
               /\ ingestors' = [ingestors EXCEPT ![p] =
                      [@ EXCEPT !.i = @ + 1,
                                !.at = IF ingestors[p].i = Len(ingestors[p].incoming_files)
                                       THEN "returned" ELSE "copy2"]]
          ELSE /\ UNCHANGED incoming
               /\ ingestors' = [ingestors EXCEPT ![p].at = "raised"]
    /\ UNCHANGED <<bronze_all, raw, NotIngested>>

NextConcurrent ==
    \E p \in Instances :
        Glob(p) \/ Copy2(p) \/ ReadCsv(p) \/ Header(p) \/ ToCsv(p) \/ Unlink(p)
SpecConcurrent == InitConcurrent /\ [][NextConcurrent]_vars

----------------------------------------------------------------------------
(* Properties of the validator *)

Range(s) == {s[i] : i \in DOMAIN s}
Count(s, x) == Cardinality({i \in DOMAIN s : s[i] = x})
HasAllColumns(df) == df.exists /\ RequiredColumns \subseteq df.cols
Validated == outcome = "ok"
Accepted(i) == bronze_all.rows[i] \in Range(silver_all.rows)
Rejected(i) == bronze_all.rows[i] \in Range(rejected_rows.rows)

\* C1: after validate_silver on a bronze table with all required columns,
\* every bronze row is in exactly one of silver_all and rejected_rows: the
\* two row counts add up to bronze's, each row occurs in the two outputs
\* together as often as in bronze, and no id is in both outputs.
C1_Partition ==
    Validated =>
        /\ Len(silver_all.rows) + Len(rejected_rows.rows) = Len(bronze_all.rows)
        /\ \A x \in Range(bronze_all.rows) \cup Range(silver_all.rows)
                    \cup Range(rejected_rows.rows) :
              Count(silver_all.rows, x) + Count(rejected_rows.rows, x)
                  = Count(bronze_all.rows, x)
        /\ \A i \in DOMAIN bronze_all.rows : Accepted(i) # Rejected(i)
        /\ {r.id : r \in Range(silver_all.rows)}
               \cap {r.id : r \in Range(rejected_rows.rows)} = {}

C1_Witness ==
    /\ Validated
    /\ Len(bronze_all.rows) = MaxRows
    /\ Len(silver_all.rows) >= 1
    /\ Len(rejected_rows.rows) >= 1

\* C2: rows that share an id, or share a timestamp, are all rejected, whatever
\* their other fields are.
C2_DuplicatesAllRejected ==
    Validated =>
        \A i, j \in DOMAIN bronze_all.rows :
            (/\ i # j
             /\ \/ bronze_all.rows[i].id = bronze_all.rows[j].id
                \/ bronze_all.rows[i].timestamp = bronze_all.rows[j].timestamp)
            => /\ Rejected(i) /\ ~Accepted(i)
               /\ Rejected(j) /\ ~Accepted(j)

\* two otherwise valid rows share an id while a third row is accepted
C2_Witness ==
    /\ Validated
    /\ Len(silver_all.rows) >= 1
    /\ \E i, j \in DOMAIN bronze_all.rows :
          /\ i < j
          /\ bronze_all.rows[i].id = bronze_all.rows[j].id
          /\ bronze_all.rows[i].timestamp # bronze_all.rows[j].timestamp
          /\ bronze_all.rows[i].feature_num = Num(10)
          /\ bronze_all.rows[j].feature_num = Num(10)
          /\ Rejected(i) /\ Rejected(j)

\* The rules of the quality gate as the specification words them, for row i of
\* the bronze table.
ParseableAt(i) == bronze_all.rows[i].timestamp.k = "ts"
MinuteAt(i) == bronze_all.rows[i].timestamp.v
Parseable == {i \in DOMAIN bronze_all.rows : ParseableAt(i)}
\* minimum positive gap between consecutive timestamps in sorted order
CadenceExists == \E i, j \in Parseable : MinuteAt(i) < MinuteAt(j)
Cadence ==
    Min({MinuteAt(j) - MinuteAt(i) : <<i, j>> \in
            {p \in Parseable \X Parseable : MinuteAt(p[1]) < MinuteAt(p[2])}})
HasPredecessor(i) == \E j \in Parseable : MinuteAt(j) < MinuteAt(i)
\* the gap of row i from the timestamp before it in sorted order
GapOf(i) ==
    MinuteAt(i) - CHOOSE m \in {MinuteAt(j) : j \in Parseable} :
                      /\ m < MinuteAt(i)
                      /\ \A j \in Parseable : MinuteAt(j) < MinuteAt(i) => MinuteAt(j) <= m
LargeGap(i) ==
    ParseableAt(i) /\ HasPredecessor(i) /\ CadenceExists /\ GapOf(i) > 3 * Cadence
ValueRulesOk(r) ==
    /\ \A c \in RequiredColumns : r[c] # Null
    /\ r.feature_num.k = "num"
    /\ r.feature_num.v >= -100 /\ r.feature_num.v <= 200
    /\ r.target \in {Num(0), Num(1)}
    /\ r.timestamp.k = "ts"
UniqueKeys(i) ==
    \A j \in DOMAIN bronze_all.rows :
        j # i => /\ bronze_all.rows[j].id # bronze_all.rows[i].id
                 /\ bronze_all.rows[j].timestamp # bronze_all.rows[i].timestamp
OptionalPassOk(i) == i \notin PanderaFailed(bronze_all, pandera)

\* C3: a row whose gap from its predecessor in sorted timestamp order exceeds
\* 3 times the cadence (the minimum positive gap over the whole table) is
\* rejected, and a row that passes every other rule and whose gap does not
\* exceed 3 times the cadence is accepted.
C3_GapDetection ==
    Validated =>
        \A i \in DOMAIN bronze_all.rows :
            /\ LargeGap(i) => Rejected(i) /\ ~Accepted(i)
            /\ (/\ ValueRulesOk(bronze_all.rows[i])
                /\ UniqueKeys(i)
                /\ OptionalPassOk(i)
                /\ ~LargeGap(i)) => Accepted(i) /\ ~Rejected(i)

\* timestamps [T, T+1, T+5]: the third row is rejected, the first two accepted
C3_Witness ==
    /\ Validated
    /\ Len(bronze_all.rows) = 3
    /\ \A i \in 1..3 : ValueRulesOk(bronze_all.rows[i]) /\ UniqueKeys(i)
    /\ {MinuteAt(i) : i \in 1..3} = {0, 1, 5}
    /\ Len(silver_all.rows) = 2
    /\ \E i \in 1..3 : MinuteAt(i) = 5 /\ Rejected(i)

\* C4: every accepted row satisfies all per-row value rules, a row violating
\* one of them is in the rejected set, and validation of a table with all
\* required columns completes.
C4_ValueRules ==
    /\ Validated =>
          /\ \A r \in Range(silver_all.rows) : ValueRulesOk(r)
          /\ \A i \in DOMAIN bronze_all.rows :
                ~ValueRulesOk(bronze_all.rows[i]) => Rejected(i) /\ ~Accepted(i)
    /\ (vruns > 0 /\ HasAllColumns(bronze_all)) => Validated

\* a row with feature_num = 1000, target = 2 and an unparseable timestamp is
\* rejected next to an accepted row
C4_Witness ==
    /\ Validated
    /\ Len(silver_all.rows) >= 1
    /\ \E i \in DOMAIN bronze_all.rows :
          /\ bronze_all.rows[i].feature_num = Num(1000)
          /\ bronze_all.rows[i].target = Num(2)
          /\ bronze_all.rows[i].timestamp = Str(0)
          /\ Rejected(i)

\* C5: a second run of validate_silver on an unchanged bronze_all leaves
\* silver_all and rejected_rows as the first run wrote them.
C5_Idempotent ==
    [][(Validated /\ bronze_all' = bronze_all)
          => /\ silver_all' = silver_all
             /\ rejected_rows' = rejected_rows
             /\ outcome' = "ok"]_vars

C5_Witness ==
    /\ Validated
    /\ vruns = 2
    /\ Len(silver_all.rows) >= 1
    /\ Len(rejected_rows.rows) >= 1

\* C6: on a bronze table that lacks a required column a run of validate_silver
\* ends in an error and leaves silver_all and rejected_rows as they were.
C6_SchemaError ==
    [][(bronze_all.exists /\ ~HasAllColumns(bronze_all) /\ vruns' # vruns)
          => /\ outcome' = "error"
             /\ silver_all' = silver_all
             /\ rejected_rows' = rejected_rows]_vars

C6_Witness ==
    /\ outcome = "error"
    /\ vruns >= 1
    /\ Len(bronze_all.rows) >= 1
    /\ silver_all = PriorSilver
    /\ rejected_rows = PriorRejected

----------------------------------------------------------------------------
(* The simulator's properties *)

\* the batches of the steps logged as st, in the order they were logged
RECURSIVE BatchesLogged(_, _)
BatchesLogged(l, st) ==
    IF l = <<>> THEN <<>>
    ELSE (IF l[1][2] = st THEN <<l[1][1]>> ELSE <<>>) \o BatchesLogged(Tail(l), st)

\* the steps logged for batch b, in the order they were logged
RECURSIVE StepsLogged(_, _)
StepsLogged(l, b) ==
    IF l = <<>> THEN <<>>
    ELSE (IF l[1][1] = b /\ l[1][2] # "SNAPSHOT" THEN <<l[1][2]>> ELSE <<>>)
         \o StepsLogged(Tail(l), b)

IsPrefix(s, t) == Len(s) <= Len(t) /\ SubSeq(t, 1, Len(s)) = s

\* the batches that have arrived in this run, and those whose processing
\* has been recorded
Arrived == BatchesLogged(log, "ARRIVING")
Recorded == BatchesLogged(log, "RECORDING")
\* main has reached the batch loop
Looping == pc \notin {"IDLE", "CALLING", "RETURNED", "PREPARING_BATCHES"} /\ k >= 1

\* the batch now being processed has gone through step st
Done(st) == Looping /\ k \in DOMAIN staged /\ st \in Range(StepsLogged(log, staged[k]))

\* C7: once a run of the simulator has taken the manifest entry of its j-th
\* batch, the manifest holds the entries it held when the batch loop began
\* (none after a reset, none when there was no manifest) followed by exactly j
\* entries, the i-th of them naming the i-th batch that arrived; at the end of
\* a run over N batches that is N entries of this run.
C7_ManifestCompleteness ==
    Looping =>
        LET j == Len(Recorded)
            old == Len(kept)
        IN /\ manifest.exists
           /\ Len(manifest.entries) = old + j
           /\ SubSeq(manifest.entries, 1, old) = kept
           /\ \A i \in 1..j : manifest.entries[old + i].batch_name = Arrived[i]
           /\ reset => old = 0
           /\ pc = "DONE" => j = n_batches /\ Len(Arrived) = n_batches

C7_Witness ==
    /\ pc = "DONE" /\ n_batches = 3 /\ Len(kept) = 1
    /\ Len(manifest.entries) = 4
    /\ manifest.entries[4].batch_name = 3

\* C7 as stated: after the N arrivals of a run the manifest holds exactly N
\* entries, the i-th naming the i-th batch that arrived
C7_AsStated ==
    pc = "DONE" =>
        /\ Len(manifest.entries) = Len(Arrived)
        /\ \A i \in 1..Len(Arrived) : manifest.entries[i].batch_name = Arrived[i]

\* C8: for each batch the simulator runs the steps strictly in the order
\* arrive, ingest, record, validate, transform, build: the batch's manifest
\* entry is appended after the Ingestor has completed for that batch and
\* before the Validator, the Transformer and the Builder run for it.
C8_StepOrder ==
    Looping =>
        /\ \A i \in DOMAIN staged :
              IsPrefix(StepsLogged(log, staged[i]),
                       <<"ARRIVING", "INGESTING", "RECORDING", "VALIDATING",
                         "TRANSFORMING", "BUILDING">>)
        /\ Len(manifest.entries) = Len(kept) + Len(Recorded)
        /\ \A st \in {"VALIDATING", "TRANSFORMING", "BUILDING"} :
              Done(st) => /\ Done("RECORDING")
                          /\ manifest.entries[Len(manifest.entries)].batch_name = staged[k]
        /\ Done("RECORDING") => Done("INGESTING") /\ staged[k] \in DOMAIN raw

C8_Witness ==
    /\ pc = "VALIDATING" /\ k = 2
    /\ Len(manifest.entries) = Len(kept) + 2
    /\ manifest.entries[Len(manifest.entries)].batch_name = staged[2]
    /\ ~Done("VALIDATING")

\* C8 as stated: the steps of a batch go arrive, ingest, validate, transform,
\* build, record
C8_AsStated ==
    Looping =>
        \A i \in DOMAIN staged :
            IsPrefix(StepsLogged(log, staged[i]),
                     <<"ARRIVING", "INGESTING", "VALIDATING", "TRANSFORMING",
                       "BUILDING", "RECORDING">>)

RECURSIVE SumLen(_)
SumLen(ps) == IF ps = <<>> THEN 0 ELSE Len(ps[1]) + SumLen(Tail(ps))

\* C9: split_into_batches(df, N) with N >= 1 returns exactly N batches; their
\* sizes are floor(total/N), the first (total mod N) of them one row larger,
\* so any two sizes differ by at most 1 and the sizes sum to total; an empty
\* source gives N empty batches.
C9_BatchSizes ==
    pc = "RETURNED" =>
        LET total == Len(source.rows)
            N == n_batches
        IN /\ Len(parts) = N
           /\ \A i \in 1..N :
                 Len(parts[i]) = (total \div N) + (IF i <= total % N THEN 1 ELSE 0)
           /\ \A i, j \in 1..N :
                 Len(parts[i]) - Len(parts[j]) <= 1 /\ Len(parts[j]) - Len(parts[i]) <= 1
           /\ SumLen(parts) = total
           /\ total = 0 => \A i \in 1..N : parts[i] = <<>>

C9_Witness ==
    /\ pc = "RETURNED" /\ Len(source.rows) = 7 /\ n_batches = 5
    /\ Len(parts[2]) = 2 /\ Len(parts[3]) = 1

\* C10: when a run with reset over a source of R rows split into N batches
\* has ended, the staging area holds N batch files, bronze holds exactly N
\* raw copies and bronze_all holds exactly R rows, each source row as often
\* as the source has it, also when the source is the bronze_all file that
\* the reset deletes.
C10_ResetRun ==
    (pc = "DONE" /\ reset) =>
        /\ Cardinality(DOMAIN staging) = n_batches
        /\ Cardinality(DOMAIN raw) = n_batches
        /\ bronze_all.exists
        /\ Len(bronze_all.rows) = Len(source.rows)
        /\ \A r \in Range(source.rows) \cup Range(bronze_all.rows) :
              Count(bronze_all.rows, r) = Count(source.rows, r)

C10_Witness ==
    /\ pc = "DONE" /\ reset /\ source_is_bronze
    /\ n_batches = 2 /\ Len(source.rows) = 3
    /\ Len(bronze_all.rows) = 3 /\ Cardinality(DOMAIN raw) = 2

----------------------------------------------------------------------------
(* The builder's and the pipeline's properties *)

Ids(df) == {df.rows[i].id : i \in DOMAIN df.rows}

\* C11: for any gold table (its ids distinct, as the validator leaves them),
\* any test fraction build_gold.py accepts and any draw of the seeded
\* generator, train and test partition gold: len(train) + len(test) =
\* len(gold), every gold row is in exactly one of them, no id is in both and
\* every gold id is in one of them.
C11_TrainTestPartition ==
    pc = "BUILT" =>
        /\ Len(train.rows) + Len(test.rows) = Len(gold.rows)
        /\ \A r \in Range(gold.rows) \cup Range(train.rows) \cup Range(test.rows) :
              Count(train.rows, r) + Count(test.rows, r) = Count(gold.rows, r)
        /\ Ids(train) \cap Ids(test) = {}
        /\ Ids(train) \cup Ids(test) = Ids(gold)
        /\ Len(test.rows) = SampleSize(Len(gold.rows), test_size)

C11_Witness ==
    /\ pc = "BUILT" /\ Len(gold.rows) = 5 /\ test_size = HalfTestSize /\ rng = "high"
    /\ Len(test.rows) = 2 /\ Len(train.rows) = 3
    /\ test.rows[1].id = Num(5)

\* feature_num_scaled is a number of [0, 1]
InUnitInterval(x) == x[2] > 0 /\ 0 <= x[1] /\ x[1] <= x[2]

\* C12: after ingest, validate, transform and build have run in that order
\* on an inbox, every row of gold.csv has no null cell, a target in {0, 1}
\* and a feature_num_scaled in [0, 1].
C12_GoldQuality ==
    pc = "BUILT" =>
        \A i \in DOMAIN gold.rows :
            LET g == gold.rows[i]
            IN /\ g.id.k # "null"
               /\ g.target.k = "num" /\ g.target.v \in {0, 1}
               /\ InUnitInterval(g.feature_num_scaled)
               /\ g.day_of_week \in -1..6
               /\ g.feature_cat_code >= 0

C12_Witness ==
    /\ pc = "BUILT" /\ Len(bronze_all.rows) = 3 /\ Len(gold.rows) = 2
    /\ \E i \in 1..3 : bronze_all.rows[i].target = Num(2)
    /\ gold.rows[1].feature_num_scaled = <<0, 190>>
    /\ gold.rows[2].feature_num_scaled = <<190, 190>>

----------------------------------------------------------------------------
(* The bronze store's properties *)

RECURSIVE RowsOf(_, _)
\* the rows of the files of dir named by names, one file after the other
RowsOf(names, dir) ==
    IF names = <<>> THEN <<>> ELSE dir[Head(names)].rows \o RowsOf(Tail(names), dir)

\* the arrangements of the names of S in which each name sorts, as a file
\* name, before the next
InNameOrder(S) ==
    {o \in [1..Cardinality(S) -> S] :
        \A i, j \in DOMAIN o : i < j => LexLess(BatchName(o[i]), BatchName(o[j]))}

\* C13 as stated: the row count of bronze_all equals the sum of the row
\* counts of all raw copies in the bronze store
C13_AsStated ==
    Len(bronze_all.rows) = RowsHeld(raw)

\* C14: one ingest call processes every batch file found in the inbox, in
\* sorted name order, each exactly once: the rows of the files are appended
\* to bronze_all file after file in the order of the names, a raw copy of
\* each is written, and the inbox is empty afterwards.
C14_IngestOnce ==
    [][ (incoming # EmptyDir /\ incoming' # incoming /\ DOMAIN incoming' \subseteq DOMAIN incoming)
        => /\ incoming' = EmptyDir
           /\ \E o \in InNameOrder(DOMAIN incoming) :
                 bronze_all'.rows = bronze_all.rows \o RowsOf(o, incoming)
           /\ bronze_all'.exists
           /\ DOMAIN raw' = DOMAIN raw \cup DOMAIN incoming
           /\ \A n \in DOMAIN incoming : raw'[n] = incoming[n]
           /\ \A n \in DOMAIN raw \ DOMAIN incoming : raw'[n] = raw[n] ]_vars

C14_Witness ==
    /\ incoming = EmptyDir
    /\ DOMAIN raw = {11, 100}
    /\ bronze_all.rows = <<SimRowB, SimRowC, SimRowA>>
    /\ raw[100].rows = <<SimRowB, SimRowC>> /\ raw[11].rows = <<SimRowA>>

\* C15 as stated: the old content of bronze_all stays a prefix of the new
\* content, and a raw copy, once written, keeps its content and is never
\* deleted
C15_AsStated ==
    [][ /\ bronze_all.exists =>
             bronze_all'.exists /\ IsPrefix(bronze_all.rows, bronze_all'.rows)
        /\ \A n \in DOMAIN raw : n \in DOMAIN raw' /\ raw'[n] = raw[n] ]_vars

----------------------------------------------------------------------------
(* The simulator's properties, continued *)

\* C16: the manifest is append-only within a run and across later runs that
\* are started without reset: every step leaves the entries there are
\* unchanged and at their positions. A run started with reset removes the
\* manifest together with the bronze folder and begins a new, empty one.
C16_ManifestAppendOnly ==
    [][ IF pc = "PREPARING_BATCHES" /\ reset /\ pc' # "ABORTED"
        THEN manifest' = Manifest(<<>>)
        ELSE /\ IsPrefix(manifest.entries, manifest'.entries)
             /\ manifest.exists => manifest'.exists ]_vars

C16_Witness ==
    /\ pc = "DONE" /\ ~reset /\ n_batches = 2
    /\ Len(kept) = 1 /\ Len(manifest.entries) = 3
    /\ manifest.entries[1] = kept[1]
    /\ manifest.entries[1].checksum = Md5(EarlierTable)

\* C16 as stated: an entry, once written, stays unchanged and at the same
\* position in every later state, across all later simulator runs
C16_AsStated ==
    [][IsPrefix(manifest.entries, manifest'.entries)]_vars

\* What a run over the source alone produces: the source in the order
\* split_into_batches gives it, validated, transformed and built in one go
SourceInOrder ==
    LET ord == CHOOSE o \in SortOrders(source) : TRUE
    IN [p \in DOMAIN ord |-> source.rows[ord[p]]]
ReplayBronze == File(source.cols, SourceInOrder)
ReplayMask ==
    LET ord == CHOOSE o \in sort_values(ParsedTs(SourceInOrder)) : TRUE
    IN validate_df(ReplayBronze, RequiredColumns, ord, pandera)
ReplaySilver == File(source.cols, Select(SourceInOrder, ReplayMask, TRUE))
ReplayRejected == File(source.cols, Select(SourceInOrder, ReplayMask, FALSE))
ReplayGoldRows ==
    [i \in DOMAIN ReplaySilver.rows |->
        GoldRow(TransformRow(ReplaySilver.rows, ReplaySilver.rows[i]))]
ReplayTestPositions == SamplePositions(Len(ReplayGoldRows), test_size, rng)
ReplayTestRows == [p \in DOMAIN ReplayTestPositions |-> ReplayGoldRows[ReplayTestPositions[p]]]
ReplayTrainRows == DropPositions(ReplayGoldRows, Range(ReplayTestPositions))
ReplayBatchSize(i) ==
    (Len(source.rows) \div n_batches) + (IF i <= Len(source.rows) % n_batches THEN 1 ELSE 0)

ScriptSteps == {"INGESTING", "VALIDATING", "TRANSFORMING", "BUILDING"}

\* C18: when a script the simulator runs for batch k (ingest, validate,
\* transform, build) fails, the simulator stops at once: the failed step and
\* the later steps of batch k are not done, no later batch is copied to the
\* inbox or ingested, and DONE is not reached; no step follows the failure.
C18_StageFailureStops ==
    /\ [](failure # <<>> =>
             /\ pc = "ABORTED"
             /\ failure[1] = staged[k] /\ failure[2] \in ScriptSteps
             /\ failure[2] \notin Range(StepsLogged(log, staged[k]))
             /\ log # <<>> /\ log[Len(log)][1] = staged[k]
             /\ NextStage(log[Len(log)][2]) = failure[2]
             /\ \A i \in DOMAIN staged :
                   i > k => /\ StepsLogged(log, staged[i]) = <<>>
                            /\ staged[i] \notin DOMAIN incoming)
    /\ [][failure = <<>>]_vars

C18_Witness ==
    /\ pc = "ABORTED" /\ failure = <<2, "TRANSFORMING">> /\ n_batches = 3
    /\ Len(manifest.entries) = Len(kept) + 2
    /\ silver_all.exists /\ 3 \notin DOMAIN raw

\* the calls of dvc add and git rev-parse that failed, as batches
DvcFailed == {log[i][1] : i \in {j \in DOMAIN log : Len(log[j]) = 4 /\ ~log[j][3]}}
GitFailed == {log[i][1] : i \in {j \in DOMAIN log : Len(log[j]) = 4 /\ ~log[j][4]}}

\* a step that calls dvc or git goes on to the next step and leaves the data
\* files as they are
ToolStepGoesOn ==
    pc \in {"RECORDING", "SNAPSHOT"} =>
        /\ pc' # "ABORTED"
        /\ UNCHANGED <<bronze_all, raw, silver_all, rejected_rows, transformed, gold,
                       train, test>>

\* C19: failing or missing dvc and git never stop the simulator: it aborts
\* only when the source is missing or a script has failed; the steps that
\* call the tools always go on and leave the data files as they are; a run
\* always comes to an end, and when it ends in DONE all N batches are
\* processed, the manifest has one new entry per batch, and after a reset the
\* bronze, silver and gold contents are those the source gives.
C19_ToolFailureNonFatal ==
    /\ [](pc = "ABORTED" => failure # <<>> \/ k = 0)
    /\ [](pc = "DONE" =>
             /\ Len(Arrived) = n_batches
             /\ Len(manifest.entries) = Len(kept) + n_batches
             /\ reset => /\ bronze_all = ReplayBronze
                         /\ silver_all = ReplaySilver
                         /\ gold.rows = ReplayGoldRows)
    /\ [][ToolStepGoesOn]_vars
    /\ <>(pc \in {"DONE", "ABORTED"})

C19_Witness ==
    /\ pc = "DONE" /\ n_batches = 2 /\ reset
    /\ DvcFailed = {1, 2} /\ GitFailed = {1, 2}
    /\ Len(manifest.entries) = 2 /\ Len(gold.rows) = 2

\* C20 as stated: when dvc add fails for a batch, the checksum in the batch's
\* manifest entry is the content hash of the batch's raw copy as ingested in
\* this run, and the side-car next to the raw copy holds the same hash
C20_AsStated ==
    Looping =>
        \A i \in 1..Len(Recorded) :
            LET b == Recorded[i]
                entry == manifest.entries[Len(kept) + i]
            IN b \in DvcFailed =>
                  /\ entry.checksum = Md5(raw[b])
                  /\ b \in DOMAIN sidecar
                  /\ sidecar[b].md5 = entry.checksum

\* C21 as stated: the rows_in_batch of a batch's manifest entry is the number
\* of data rows of that batch, also when the raw copy could not be read and
\* the lines of the staged batch file are counted instead
C21_AsStated ==
    Looping =>
        \A i \in 1..Len(Recorded) :
            manifest.entries[Len(kept) + i].rows_in_batch = Len(staging[Recorded[i]].rows)

----------------------------------------------------------------------------
(* The stage scripts' properties *)

\* the script run by this step, and how it ended
Ran(script) == Len(log') = Len(log) + 1 /\ log'[Len(log')][1] = script
Returned == log'[Len(log')][2] = "skipped"
StageSkips ==
    /\ (Ran("validate_silver.py") /\ ~bronze_all.exists)
          => Returned /\ UNCHANGED <<silver_all, rejected_rows>>
    /\ (Ran("transform_silver.py") /\ ~silver_all.exists)
          => Returned /\ UNCHANGED transformed
    /\ (Ran("build_gold.py") /\ ~transformed.exists)
          => Returned /\ UNCHANGED <<gold, train, test>>

\* C22: a stage script run while its input file is absent (validate_silver
\* without bronze_all, transform_silver without silver_all, build_gold
\* without transformed_silver) returns normally, without an error, and leaves
\* each of its output files as it was: absent if it was absent, unchanged if
\* an earlier run had written it.
C22_AbsentInputSkips == [][StageSkips]_vars

C22_Witness ==
    /\ log = << <<"validate_silver.py", "skipped">>, <<"transform_silver.py", "skipped">>,
                <<"build_gold.py", "skipped">> >>
    /\ rejected_rows = PriorRejected /\ silver_all = Absent
    /\ transformed = Absent /\ gold = StaleTrain /\ train = StaleTrain

\* the core rules (the value rules, the uniqueness rules, the continuity
\* rule), as the specification words them, for row i of the bronze table
CoreOk(i) == ValueRulesOk(bronze_all.rows[i]) /\ UniqueKeys(i) /\ ~LargeGap(i)
\* pandera is not installed, or its pass ends in an exception
PassDropped == ~pandera \/ PanderaDtypeFailure(bronze_all)

\* C23: the optional schema-validation pass only adds rejections: every row
\* accepted while the pass is available is a row the core rules accept, so a
\* row a core rule rejects is never accepted; and when the pass is
\* unavailable or raises, the accepted rows are exactly the rows the core
\* rules accept.
C23_OptionalPassOnlyRejects ==
    Validated =>
        \A i \in DOMAIN bronze_all.rows :
            /\ Accepted(i) => CoreOk(i)
            /\ ~CoreOk(i) => Rejected(i)
            /\ PassDropped => (Accepted(i) <=> CoreOk(i))
            /\ Accepted(i) <=> ~Rejected(i)

\* with pandera: a row the core rules accept is rejected by the pass, a row
\* the pass has nothing against stays rejected by a core rule, a third row is
\* accepted
C23_Witness ==
    /\ Validated /\ pandera /\ ~PassDropped
    /\ Len(bronze_all.rows) = 3
    /\ \E i, j, l \in DOMAIN bronze_all.rows :
          /\ CoreOk(i) /\ Rejected(i)
          /\ Accepted(j)
          /\ ~CoreOk(l) /\ ~PanderaRowFails(bronze_all.rows[l]) /\ Rejected(l)

\* the table validated is the accepted set of an earlier validation
Regated == pc = "REFED" /\ Validated

----------------------------------------------------------------------------
(* Incremental arrival against one-shot processing *)

\* the mask of one validation of the whole source table, as it was read
OneShotMask ==
    LET ord == CHOOSE o \in sort_values(ParsedTs(source.rows)) : TRUE
    IN validate_df(source, RequiredColumns, ord, pandera)
OneShotAccepted == {source.rows[i] : i \in {j \in DOMAIN source.rows : OneShotMask[j]}}
OneShotRejected == {source.rows[i] : i \in {j \in DOMAIN source.rows : ~OneShotMask[j]}}

\* C26: when a run with reset has delivered its last batch and ended, the
\* accepted set and the rejected set are the sets one validation of the
\* whole source table gives, for every N and every split of the source:
\* silver_all holds exactly the rows accepted in one go, rejected_rows
\* exactly the rows rejected in one go, each once.
C26_IncrementalEqualsOneShot ==
    (pc = "DONE" /\ reset) =>
        /\ silver_all.exists /\ rejected_rows.exists
        /\ Range(silver_all.rows) = OneShotAccepted
        /\ Range(rejected_rows.rows) = OneShotRejected
        /\ Len(silver_all.rows) = Cardinality(OneShotAccepted)
        /\ Len(rejected_rows.rows) = Cardinality(OneShotRejected)

\* three rows delivered one by one: two of them share an id and are rejected
\* for it, though each is alone in its batch
C26_Witness ==
    /\ pc = "DONE" /\ reset /\ n_batches = 3
    /\ source.rows = <<GapRowC, GapRowD, GapRowA>>
    /\ \A i \in 1..3 : Len(parts[i]) = 1
    /\ silver_all.rows = <<GapRowC>>
    /\ rejected_rows.rows = <<GapRowA, GapRowD>>

\* the batches in the order their files were copied to the inbox, and in the
\* order their manifest entries were taken
ArrivalOrder == SelectSeq(log, LAMBDA e : e[2] = "ARRIVING")
RecordOrder == SelectSeq(log, LAMBDA e : e[2] = "RECORDING")

\* Columns has a timestamp column: the source's time order is that of the
\* timestamps
InTimeOrder(rows) ==
    \A p, q \in DOMAIN rows : p < q => TextKey(rows[p].timestamp) <= TextKey(rows[q].timestamp)

\* C29 as stated: for every N the batches are delivered in the order the
\* split produced them, batch i arriving, being ingested and getting its
\* manifest entry before batch i+1, so that the rows of bronze_all are in the
\* source's time order
C29_AsStated ==
    Looping =>
        /\ \A i \in DOMAIN ArrivalOrder : ArrivalOrder[i][1] = i
        /\ \A i \in DOMAIN RecordOrder : RecordOrder[i][1] = i
        /\ \A i \in DOMAIN manifest.entries : manifest.entries[i].batch_name = i
        /\ InTimeOrder(bronze_all.rows)

----------------------------------------------------------------------------
(* Bronze against the manifest over interrupted and repeated runs *)

RECURSIVE SumRows(_)
\* the sum of rows_in_batch over manifest entries
SumRows(entries) ==
    IF entries = <<>> THEN 0
    ELSE entries[1].rows_in_batch + SumRows(Tail(entries))

\* the rows of the batch main is about to take an entry for
Pending == IF pc = "RECORDING" THEN Len(raw[staged[k]].rows) ELSE 0

\* the rows of bronze_all no manifest entry accounts for
Unrecorded == Len(bronze_all.rows) - SumRows(manifest.entries) - Pending

\* what a killed run leaves: no entry for the batch it was at, and either
\* the batch's raw copy and rows in bronze, or the raw copy of the file
\* ingest was at
KilledGap ==
    pc = "KILLED" =>
        LET b == staged[k]
        IN /\ Len(manifest.entries) = Len(kept) + k - 1
           /\ IF DOMAIN incoming = {}
              THEN /\ b \in DOMAIN raw /\ raw[b] = staging[b]
                   /\ Range(raw[b].rows) \subseteq Range(bronze_all.rows)
              ELSE LET f == SortedNames(DOMAIN incoming)[1]
                   IN f \in DOMAIN raw /\ raw[f] = incoming[f]

\* a kill after ingest adds the batch's rows to the unrecorded ones; the
\* reset deletes bronze and manifest together; no other step lowers the
\* number of unrecorded rows
NoRepairStep ==
    /\ (pc = "RECORDING" /\ pc' = "KILLED") =>
           Unrecorded' = Unrecorded + Len(raw[staged[k]].rows)
    /\ IF pc = "PREPARING_BATCHES" /\ pc' # "ABORTED" /\ reset
       THEN ~bronze_all'.exists /\ manifest' = Manifest(<<>>)
       ELSE Unrecorded' >= Unrecorded

AgreementStep == (Unrecorded = 0 /\ pc' # "KILLED") => Unrecorded' = 0

\* C27 as stated: whether or not reset is used and whatever the inbox held
\* at the start, when the sum of rows_in_batch over the manifest equals the
\* rows of bronze_all, the steps of a simulator run keep it so at the end of
\* every batch iteration
C27_AsStated == [][AgreementStep]_vars

----------------------------------------------------------------------------
(* Concurrent ingestors against their serial executions *)

\* both processes have ended, by return or by exception
Ended == \A p \in Instances : ingestors[p].at \in {"returned", "raised"}
SomeRaised == \E p \in Instances : ingestors[p].at = "raised"

\* <<raw copies, master>> after one process has run to its end and then the
\* other, in either order: the second one finds the inbox empty
SerialResult ==
    LET prior == PriorBatch \in DOMAIN raw
    IN IngestFiles(SortedNames(DOMAIN staging), staging,
                   IF prior THEN Put(EmptyDir, PriorBatch, PriorTable) ELSE EmptyDir,
                   IF prior THEN PriorTable ELSE Absent)

\* C24: two ingest_bronze.py processes on one data area can leave a
\* bronze_all that no serial execution of the two leaves. Whenever both have
\* ended, the inbox is empty, the raw copies are those of a serial
\* execution, and bronze_all holds every row at least as often as after a
\* serial execution; bronze_all is the serial result whenever no process
\* ended with an exception, and two processes that both found files in the
\* inbox never both return: the interleavings that differ from the serial
\* result are those in which a process raised FileNotFoundError.
C24_ConcurrentIngestors ==
    Ended =>
        /\ DOMAIN incoming = {}
        /\ raw = SerialResult[1]
        /\ \A r \in Range(SerialResult[2].rows) :
               Count(bronze_all.rows, r) >= Count(SerialResult[2].rows, r)
        /\ ~SomeRaised => bronze_all = SerialResult[2]
        /\ (\A p \in Instances : ingestors[p].incoming_files # <<>>) => SomeRaised

\* one batch of one row in the inbox, both processes ended, the row twice
\* in bronze_all
C24_Witness ==
    /\ Ended
    /\ DOMAIN staging = {1} /\ staging[1].rows = <<SimRowA>>
    /\ Count(bronze_all.rows, SimRowA) = 2
    /\ bronze_all # SerialResult[2]

====
